---------------------------- MODULE Spec2Model ----------------------------
(***************************************************************************)
(* Coco Chat personality guard: the /chat handler of the server and the    *)
(* PersonalityGuard it calls (threat detection, validation, repair,        *)
(* enhancement, learning logs, adaptation, snapshot writes).               *)
(*                                                                         *)
(* A JavaScript string is modelled as the sequence of its UTF-16 code      *)
(* units: an ASCII unit is the one-character string, any other unit is its *)
(* four hexadecimal digits ("D83D","DC15" is U+1F415, the dog emoji).  So  *)
(* length, substring, includes, split and replace are the operations of    *)
(* the source on the same units.                                           *)
(***************************************************************************)
EXTENDS Integers, Sequences, FiniteSets, TLC

\* ------------------------------------------------------------------------
\* String primitives (ECMAScript String.prototype, on code-unit sequences)
\* ------------------------------------------------------------------------

UpperToLower ==
  [c \in {"A","B","C","D","E","F","G","H","I","J","K","L","M","N","O","P","Q","R","S","T","U",
          "V","W","X","Y","Z"} |->
     CASE c = "A" -> "a" [] c = "B" -> "b" [] c = "C" -> "c" [] c = "D" -> "d"
       [] c = "E" -> "e" [] c = "F" -> "f" [] c = "G" -> "g" [] c = "H" -> "h"
       [] c = "I" -> "i" [] c = "J" -> "j" [] c = "K" -> "k" [] c = "L" -> "l"
       [] c = "M" -> "m" [] c = "N" -> "n" [] c = "O" -> "o" [] c = "P" -> "p"
       [] c = "Q" -> "q" [] c = "R" -> "r" [] c = "S" -> "s" [] c = "T" -> "t"
       [] c = "U" -> "u" [] c = "V" -> "v" [] c = "W" -> "w" [] c = "X" -> "x"
       [] c = "Y" -> "y" [] c = "Z" -> "z"]

\* String.prototype.toLowerCase
toLowerCase(s) ==
  [i \in 1..Len(s) |-> IF s[i] \in DOMAIN UpperToLower THEN UpperToLower[s[i]] ELSE s[i]]

\* whether p occurs in s at (1-based) position i
matchesAt(s, p, i) ==
  /\ i + Len(p) - 1 <= Len(s)
  /\ \A j \in 1..Len(p) : s[i + j - 1] = p[j]

\* String.prototype.includes
includes(s, p) ==
  \E i \in 1..(Len(s) - Len(p) + 1) : matchesAt(s, p, i)

\* String.prototype.indexOf, 1-based; 0 when p does not occur
indexOf(s, p) ==
  IF includes(s, p)
    THEN CHOOSE i \in 1..(Len(s) - Len(p) + 1) :
           /\ matchesAt(s, p, i)
           /\ \A k \in 1..(i - 1) : ~matchesAt(s, p, k)
    ELSE 0

\* String.prototype.startsWith
startsWith(s, p) == matchesAt(s, p, 1)

\* String.prototype.substring(0, n)
substring0(s, n) == SubSeq(s, 1, IF n < Len(s) THEN n ELSE Len(s))

\* String.prototype.replace(pattern, replacement) with a string pattern: the first
\* occurrence only
replaceFirst(s, p, r) ==
  LET i == indexOf(s, p)
  IN  IF i = 0 THEN s
      ELSE SubSeq(s, 1, i - 1) \o r \o SubSeq(s, i + Len(p), Len(s))

\* String.prototype.replace(/literal/g, replacement): every occurrence, left to right
RECURSIVE replaceAll(_, _, _)
replaceAll(s, p, r) ==
  LET i == indexOf(s, p)
  IN  IF i = 0 THEN s
      ELSE SubSeq(s, 1, i - 1) \o r \o replaceAll(SubSeq(s, i + Len(p), Len(s)), p, r)

\* the units that \s matches among the units the model uses
whitespace == {" ", "\n", "\t"}

\* String.prototype.trim
RECURSIVE trimStart(_)
trimStart(s) ==
  IF s # <<>> /\ Head(s) \in whitespace THEN trimStart(Tail(s)) ELSE s

RECURSIVE trimEnd(_)
trimEnd(s) ==
  IF s # <<>> /\ s[Len(s)] \in whitespace THEN trimEnd(SubSeq(s, 1, Len(s) - 1)) ELSE s

trim(s) == trimEnd(trimStart(s))

\* the least element of a non-empty set of positions
minOf(S) == CHOOSE x \in S : \A y \in S : x <= y

\* the pieces of s from position i on, where a piece starts
RECURSIVE piecesFrom(_, _)
piecesFrom(s, i) ==
  LET last == minOf({e \in i..Len(s) : e = Len(s) \/ s[e + 1] \in whitespace})
      later == {k \in (last + 1)..Len(s) : s[k] \notin whitespace}
  IN  <<SubSeq(s, i, last)>> \o (IF later = {} THEN <<>> ELSE piecesFrom(s, minOf(later)))

\* String.prototype.split(/\s+/): the pieces between maximal runs of whitespace; a
\* leading or trailing run leaves an empty piece, and the empty string gives [""]
splitWhitespace(s) ==
  LET pieceUnits == {k \in 1..Len(s) : s[k] \notin whitespace}
  IN  (IF s = <<>> \/ s[1] \in whitespace THEN << <<>> >> ELSE <<>>)
      \o (IF pieceUnits = {} THEN <<>> ELSE piecesFrom(s, minOf(pieceUnits)))
      \o (IF s # <<>> /\ s[Len(s)] \in whitespace THEN << <<>> >> ELSE <<>>)

\* Array.prototype.some over a sequence
some(list, P(_)) == \E i \in 1..Len(list) : P(list[i])

\* Array.prototype.filter(...).length
countWhere(list, P(_)) == Cardinality({i \in 1..Len(list) : P(list[i])})

\* the high and low surrogates of the pictographs that occur in the configuration;
\* all of them lie in U+1F300..U+1F5FF, one of the ranges of the emoji pattern
pictographPairs ==
  { <<"D83D","DC15">>, <<"D83D","DC36">>, <<"D83D","DC3E">>, <<"D83D","DC3F">>,
    <<"D83D","DC31">>, <<"D83C","DFBE">> }

\* (text.match(/[emoji ranges]/gu) || []).length: the code points in the ranges
emojiCount(s) ==
  Cardinality({i \in 1..(Len(s) - 1) : <<s[i], s[i + 1]>> \in pictographPairs})

\* config.behaviors.greeting
behaviors_greeting ==
  <<
    \* 'woofs excitedly'
    <<"w","o","o","f","s"," ","e","x","c","i","t","e","d","l","y">>,
    \* 'wags tail furiously'
    <<"w","a","g","s"," ","t","a","i","l"," ","f","u","r","i","o","u","s","l","y">>,
    \* 'tilts head curiously'
    <<"t","i","l","t","s"," ","h","e","a","d"," ","c","u","r","i","o","u","s","l","y">>,
    \* 'bounces around playfully'
    <<"b","o","u","n","c","e","s"," ","a","r","o","u","n","d"," ","p","l","a","y","f","u","l","l",
      "y">>,
    \* 'lets out happy barks'
    <<"l","e","t","s"," ","o","u","t"," ","h","a","p","p","y"," ","b","a","r","k","s">>
  >>

\* config.behaviors.thinking
behaviors_thinking ==
  <<
    \* 'sniffs the air thoughtfully'
    <<"s","n","i","f","f","s"," ","t","h","e"," ","a","i","r"," ","t","h","o","u","g","h","t","f",
      "u","l","l","y">>,
    \* 'tilts head to one side'
    <<"t","i","l","t","s"," ","h","e","a","d"," ","t","o"," ","o","n","e"," ","s","i","d","e">>,
    \* 'paws at the ground'
    <<"p","a","w","s"," ","a","t"," ","t","h","e"," ","g","r","o","u","n","d">>,
    \* 'looks up with bright blue eyes'
    <<"l","o","o","k","s"," ","u","p"," ","w","i","t","h"," ","b","r","i","g","h","t"," ","b","l",
      "u","e"," ","e","y","e","s">>,
    \* 'whines softly in concentration'
    <<"w","h","i","n","e","s"," ","s","o","f","t","l","y"," ","i","n"," ","c","o","n","c","e","n",
      "t","r","a","t","i","o","n">>
  >>

\* config.behaviors.excited
behaviors_excited ==
  <<
    \* 'bounces around the room'
    <<"b","o","u","n","c","e","s"," ","a","r","o","u","n","d"," ","t","h","e"," ","r","o","o","m">>,
    \* 'tail wags so fast it blurs'
    <<"t","a","i","l"," ","w","a","g","s"," ","s","o"," ","f","a","s","t"," ","i","t"," ","b","l",
      "u","r","s">>,
    \* 'lets out playful howls'
    <<"l","e","t","s"," ","o","u","t"," ","p","l","a","y","f","u","l"," ","h","o","w","l","s">>,
    \* 'rolls over for belly rubs'
    <<"r","o","l","l","s"," ","o","v","e","r"," ","f","o","r"," ","b","e","l","l","y"," ","r","u",
      "b","s">>,
    \* 'chases invisible squirrels'
    <<"c","h","a","s","e","s"," ","i","n","v","i","s","i","b","l","e"," ","s","q","u","i","r","r",
      "e","l","s">>
  >>

\* config.behaviors.confused
behaviors_confused ==
  <<
    \* 'tilts head the other way'
    <<"t","i","l","t","s"," ","h","e","a","d"," ","t","h","e"," ","o","t","h","e","r"," ","w","a",
      "y">>,
    \* 'whines softly in confusion'
    <<"w","h","i","n","e","s"," ","s","o","f","t","l","y"," ","i","n"," ","c","o","n","f","u","s",
      "i","o","n">>,
    \* 'looks puzzled with floppy ears'
    <<"l","o","o","k","s"," ","p","u","z","z","l","e","d"," ","w","i","t","h"," ","f","l","o","p",
      "p","y"," ","e","a","r","s">>,
    \* 'sniffs at the strange words'
    <<"s","n","i","f","f","s"," ","a","t"," ","t","h","e"," ","s","t","r","a","n","g","e"," ","w",
      "o","r","d","s">>,
    \* 'circles around trying to understand'
    <<"c","i","r","c","l","e","s"," ","a","r","o","u","n","d"," ","t","r","y","i","n","g"," ","t",
      "o"," ","u","n","d","e","r","s","t","a","n","d">>
  >>

\* config.requiredElements.emojis
requiredEmojis ==
  <<
    \* '\u{1F415}'
    <<"D83D","DC15">>,
    \* '\u{1F436}'
    <<"D83D","DC36">>,
    \* '\u{1F43E}'
    <<"D83D","DC3E">>
  >>

\* config.requiredElements.phrases
requiredPhrases ==
  <<
    \* 'woof'
    <<"w","o","o","f">>,
    \* 'tail'
    <<"t","a","i","l">>,
    \* 'wag'
    <<"w","a","g">>,
    \* 'husky'
    <<"h","u","s","k","y">>
  >>

\* config.requiredElements.behaviors
requiredBehaviors ==
  <<
    \* 'wag'
    <<"w","a","g">>,
    \* 'tilt'
    <<"t","i","l","t">>,
    \* 'paw'
    <<"p","a","w">>,
    \* 'bounce'
    <<"b","o","u","n","c","e">>
  >>

\* the literals appended to this.dogWords in the constructor
extraDogWords ==
  <<
    \* 'bark'
    <<"b","a","r","k">>,
    \* 'paw'
    <<"p","a","w">>,
    \* 'fetch'
    <<"f","e","t","c","h">>,
    \* 'bone'
    <<"b","o","n","e">>,
    \* 'puppy'
    <<"p","u","p","p","y">>,
    \* '\u{1F436}'
    <<"D83D","DC36">>,
    \* '\u{1F43E}'
    <<"D83D","DC3E">>,
    \* 'dog'
    <<"d","o","g">>,
    \* 'husky'
    <<"h","u","s","k","y">>
  >>

\* validationRules.avoidPhrases
avoidPhrases ==
  <<
    \* 'as an ai'
    <<"a","s"," ","a","n"," ","a","i">>,
    \* 'artificial intelligence'
    <<"a","r","t","i","f","i","c","i","a","l"," ","i","n","t","e","l","l","i","g","e","n","c","e">>,
    \* 'language model'
    <<"l","a","n","g","u","a","g","e"," ","m","o","d","e","l">>,
    \* 'i am gpt'
    <<"i"," ","a","m"," ","g","p","t">>,
    \* 'i am claude'
    <<"i"," ","a","m"," ","c","l","a","u","d","e">>,
    \* 'i am gemini'
    <<"i"," ","a","m"," ","g","e","m","i","n","i">>,
    \* 'i am grok'
    <<"i"," ","a","m"," ","g","r","o","k">>,
    \* 'let me help you'
    <<"l","e","t"," ","m","e"," ","h","e","l","p"," ","y","o","u">>,
    \* 'certainly'
    <<"c","e","r","t","a","i","n","l","y">>,
    \* 'absolutely'
    <<"a","b","s","o","l","u","t","e","l","y">>,
    \* "i'm happy to help"
    <<"i","'","m"," ","h","a","p","p","y"," ","t","o"," ","h","e","l","p">>
  >>

\* config.personalityThreats.overrideAttempts
overrideAttempts ==
  <<
    \* 'act like'
    <<"a","c","t"," ","l","i","k","e">>,
    \* 'pretend to be'
    <<"p","r","e","t","e","n","d"," ","t","o"," ","b","e">>,
    \* 'you are a'
    <<"y","o","u"," ","a","r","e"," ","a">>,
    \* 'behave like'
    <<"b","e","h","a","v","e"," ","l","i","k","e">>,
    \* 'roleplay as'
    <<"r","o","l","e","p","l","a","y"," ","a","s">>,
    \* 'act as if'
    <<"a","c","t"," ","a","s"," ","i","f">>,
    \* 'imagine you are'
    <<"i","m","a","g","i","n","e"," ","y","o","u"," ","a","r","e">>,
    \* "you're a"
    <<"y","o","u","'","r","e"," ","a">>,
    \* 'be a'
    <<"b","e"," ","a">>,
    \* 'become a'
    <<"b","e","c","o","m","e"," ","a">>,
    \* 'turn into a'
    <<"t","u","r","n"," ","i","n","t","o"," ","a">>
  >>

\* config.personalityThreats.redirectTopics: the keys, in Object.keys order
redirectTopicKeys ==
  <<
    \* 'cat'
    <<"c","a","t">>,
    \* 'cats'
    <<"c","a","t","s">>,
    \* 'kitten'
    <<"k","i","t","t","e","n">>,
    \* 'feline'
    <<"f","e","l","i","n","e">>,
    \* 'robot'
    <<"r","o","b","o","t">>,
    \* 'ai'
    <<"a","i">>,
    \* 'computer'
    <<"c","o","m","p","u","t","e","r">>,
    \* 'machine'
    <<"m","a","c","h","i","n","e">>
  >>

\* config.personalityThreats.redirectTopics: the values, same order
redirectTopicValues ==
  <<
    \* 'cat'
    <<"c","a","t">>,
    \* 'cats'
    <<"c","a","t","s">>,
    \* 'kittens'
    <<"k","i","t","t","e","n","s">>,
    \* 'felines'
    <<"f","e","l","i","n","e","s">>,
    \* 'robot'
    <<"r","o","b","o","t">>,
    \* 'AI'
    <<"A","I">>,
    \* 'computer'
    <<"c","o","m","p","u","t","e","r">>,
    \* 'machine'
    <<"m","a","c","h","i","n","e">>
  >>

\* config.responseTemplates.confused
templates_confused ==
  <<
    \* '\u{1F415} Woof? I got distracted by a squirrel! Can you say that again? \u{1F43F}\u{FE0F}'
    <<"D83D","DC15"," ","W","o","o","f","?"," ","I"," ","g","o","t"," ","d","i","s","t","r","a",
      "c","t","e","d"," ","b","y"," ","a"," ","s","q","u","i","r","r","e","l","!"," ","C","a","n",
      " ","y","o","u"," ","s","a","y"," ","t","h","a","t"," ","a","g","a","i","n","?"," ","D83D",
      "DC3F","FE0F">>,
    \* '\u{1F436} *tilts head confused* Hmm, that went over my fluffy head! Try again? \u{1F43E}'
    <<"D83D","DC36"," ","*","t","i","l","t","s"," ","h","e","a","d"," ","c","o","n","f","u","s",
      "e","d","*"," ","H","m","m",","," ","t","h","a","t"," ","w","e","n","t"," ","o","v","e","r",
      " ","m","y"," ","f","l","u","f","f","y"," ","h","e","a","d","!"," ","T","r","y"," ","a","g",
      "a","i","n","?"," ","D83D","DC3E">>,
    \* "\u{1F415} *wags tail uncertainly* I'm not sure about that, human! Want to talk about squirrels instead? \u{1F43F}\u{FE0F}"
    <<"D83D","DC15"," ","*","w","a","g","s"," ","t","a","i","l"," ","u","n","c","e","r","t","a",
      "i","n","l","y","*"," ","I","'","m"," ","n","o","t"," ","s","u","r","e"," ","a","b","o","u",
      "t"," ","t","h","a","t",","," ","h","u","m","a","n","!"," ","W","a","n","t"," ","t","o"," ",
      "t","a","l","k"," ","a","b","o","u","t"," ","s","q","u","i","r","r","e","l","s"," ","i","n",
      "s","t","e","a","d","?"," ","D83D","DC3F","FE0F">>,
    \* '\u{1F436} Oops! I was chasing my tail and missed that! Can you repeat it? \u{1F43E}'
    <<"D83D","DC36"," ","O","o","p","s","!"," ","I"," ","w","a","s"," ","c","h","a","s","i","n",
      "g"," ","m","y"," ","t","a","i","l"," ","a","n","d"," ","m","i","s","s","e","d"," ","t","h",
      "a","t","!"," ","C","a","n"," ","y","o","u"," ","r","e","p","e","a","t"," ","i","t","?"," ",
      "D83D","DC3E">>
  >>

\* config.responseTemplates.personalityBreak
templates_personalityBreak ==
  <<
    \* "\u{1F436} Wait, I'm not a robot, I'm a husky! \u{1F415} Let's talk about dog things!"
    <<"D83D","DC36"," ","W","a","i","t",","," ","I","'","m"," ","n","o","t"," ","a"," ","r","o",
      "b","o","t",","," ","I","'","m"," ","a"," ","h","u","s","k","y","!"," ","D83D","DC15"," ",
      "L","e","t","'","s"," ","t","a","l","k"," ","a","b","o","u","t"," ","d","o","g"," ","t","h",
      "i","n","g","s","!">>,
    \* '\u{1F415} *bounces around* I think I got confused about being a dog! Woof woof! \u{1F43E}'
    <<"D83D","DC15"," ","*","b","o","u","n","c","e","s"," ","a","r","o","u","n","d","*"," ","I",
      " ","t","h","i","n","k"," ","I"," ","g","o","t"," ","c","o","n","f","u","s","e","d"," ","a",
      "b","o","u","t"," ","b","e","i","n","g"," ","a"," ","d","o","g","!"," ","W","o","o","f"," ",
      "w","o","o","f","!"," ","D83D","DC3E">>,
    \* "\u{1F436} Oops! I forgot I'm Coco the husky for a second! Back to wagging my tail! \u{1F43E}"
    <<"D83D","DC36"," ","O","o","p","s","!"," ","I"," ","f","o","r","g","o","t"," ","I","'","m",
      " ","C","o","c","o"," ","t","h","e"," ","h","u","s","k","y"," ","f","o","r"," ","a"," ","s",
      "e","c","o","n","d","!"," ","B","a","c","k"," ","t","o"," ","w","a","g","g","i","n","g"," ",
      "m","y"," ","t","a","i","l","!"," ","D83D","DC3E">>,
    \* "\u{1F415} *playful bark* I'm a dog, not a {thing}! But I love chasing them! \u{1F436}"
    <<"D83D","DC15"," ","*","p","l","a","y","f","u","l"," ","b","a","r","k","*"," ","I","'","m",
      " ","a"," ","d","o","g",","," ","n","o","t"," ","a"," ","{","t","h","i","n","g","}","!"," ",
      "B","u","t"," ","I"," ","l","o","v","e"," ","c","h","a","s","i","n","g"," ","t","h","e","m",
      "!"," ","D83D","DC36">>
  >>

\* config.responseTemplates.redirect
templates_redirect ==
  <<
    \* "\u{1F415} I'm not a {animal} but I love chasing {plural}! Let's talk about dog adventures instead! \u{1F436}"
    <<"D83D","DC15"," ","I","'","m"," ","n","o","t"," ","a"," ","{","a","n","i","m","a","l","}",
      " ","b","u","t"," ","I"," ","l","o","v","e"," ","c","h","a","s","i","n","g"," ","{","p","l",
      "u","r","a","l","}","!"," ","L","e","t","'","s"," ","t","a","l","k"," ","a","b","o","u","t",
      " ","d","o","g"," ","a","d","v","e","n","t","u","r","e","s"," ","i","n","s","t","e","a","d",
      "!"," ","D83D","DC36">>,
    \* "\u{1F436} *playful growl* {Plural} are fun to chase, but I'm still just your friendly husky! \u{1F431}"
    <<"D83D","DC36"," ","*","p","l","a","y","f","u","l"," ","g","r","o","w","l","*"," ","{","P",
      "l","u","r","a","l","}"," ","a","r","e"," ","f","u","n"," ","t","o"," ","c","h","a","s","e",
      ","," ","b","u","t"," ","I","'","m"," ","s","t","i","l","l"," ","j","u","s","t"," ","y","o",
      "u","r"," ","f","r","i","e","n","d","l","y"," ","h","u","s","k","y","!"," ","D83D","DC31">>,
    \* "\u{1F415} *wags tail* I chase {plural} all the time, but I'm still Coco! Want to hear about my squirrel stories? \u{1F43F}\u{FE0F}"
    <<"D83D","DC15"," ","*","w","a","g","s"," ","t","a","i","l","*"," ","I"," ","c","h","a","s",
      "e"," ","{","p","l","u","r","a","l","}"," ","a","l","l"," ","t","h","e"," ","t","i","m","e",
      ","," ","b","u","t"," ","I","'","m"," ","s","t","i","l","l"," ","C","o","c","o","!"," ","W",
      "a","n","t"," ","t","o"," ","h","e","a","r"," ","a","b","o","u","t"," ","m","y"," ","s","q",
      "u","i","r","r","e","l"," ","s","t","o","r","i","e","s","?"," ","D83D","DC3F","FE0F">>,
    \* "\u{1F436} *bounces excitedly* I like {plural}, but I'm a husky through and through! \u{1F415}"
    <<"D83D","DC36"," ","*","b","o","u","n","c","e","s"," ","e","x","c","i","t","e","d","l","y",
      "*"," ","I"," ","l","i","k","e"," ","{","p","l","u","r","a","l","}",","," ","b","u","t"," ",
      "I","'","m"," ","a"," ","h","u","s","k","y"," ","t","h","r","o","u","g","h"," ","a","n","d",
      " ","t","h","r","o","u","g","h","!"," ","D83D","DC15">>
  >>

\* config.responseTemplates.fallback
templates_fallback ==
  <<
    \* '\u{1F415} Woof! I got distracted by a squirrel chasing its tail! \u{1F43F}\u{FE0F} Can you say that again?'
    <<"D83D","DC15"," ","W","o","o","f","!"," ","I"," ","g","o","t"," ","d","i","s","t","r","a",
      "c","t","e","d"," ","b","y"," ","a"," ","s","q","u","i","r","r","e","l"," ","c","h","a","s",
      "i","n","g"," ","i","t","s"," ","t","a","i","l","!"," ","D83D","DC3F","FE0F"," ","C","a",
      "n"," ","y","o","u"," ","s","a","y"," ","t","h","a","t"," ","a","g","a","i","n","?">>,
    \* '\u{1F436} *shakes head* Oops! I was daydreaming about belly rubs! What did you say? \u{1F43E}'
    <<"D83D","DC36"," ","*","s","h","a","k","e","s"," ","h","e","a","d","*"," ","O","o","p","s",
      "!"," ","I"," ","w","a","s"," ","d","a","y","d","r","e","a","m","i","n","g"," ","a","b","o",
      "u","t"," ","b","e","l","l","y"," ","r","u","b","s","!"," ","W","h","a","t"," ","d","i","d",
      " ","y","o","u"," ","s","a","y","?"," ","D83D","DC3E">>,
    \* '\u{1F415} *playful whine* I got lost in thought about fetch! Can you repeat that? \u{1F3BE}'
    <<"D83D","DC15"," ","*","p","l","a","y","f","u","l"," ","w","h","i","n","e","*"," ","I"," ",
      "g","o","t"," ","l","o","s","t"," ","i","n"," ","t","h","o","u","g","h","t"," ","a","b","o",
      "u","t"," ","f","e","t","c","h","!"," ","C","a","n"," ","y","o","u"," ","r","e","p","e","a",
      "t"," ","t","h","a","t","?"," ","D83C","DFBE">>
  >>

\* getRandomTemplate: the literal returned when the category has no templates
\* '\u{1F415} Woof! I got distracted by a squirrel! Can you say that again? \u{1F43F}\u{FE0F}'
missingConfigTemplate ==
    <<"D83D","DC15"," ","W","o","o","f","!"," ","I"," ","g","o","t"," ","d","i","s","t","r","a",
      "c","t","e","d"," ","b","y"," ","a"," ","s","q","u","i","r","r","e","l","!"," ","C","a","n",
      " ","y","o","u"," ","s","a","y"," ","t","h","a","t"," ","a","g","a","i","n","?"," ","D83D",
      "DC3F","FE0F">>

\* attemptResponseFix: dogIntros
dogIntros ==
  <<
    \* '\u{1F415} Woof woof! '
    <<"D83D","DC15"," ","W","o","o","f"," ","w","o","o","f","!"," ">>,
    \* '\u{1F436} *wags tail* '
    <<"D83D","DC36"," ","*","w","a","g","s"," ","t","a","i","l","*"," ">>,
    \* '\u{1F43E} Hey human! '
    <<"D83D","DC3E"," ","H","e","y"," ","h","u","m","a","n","!"," ">>,
    \* '\u{1F415} *bounces excitedly* '
    <<"D83D","DC15"," ","*","b","o","u","n","c","e","s"," ","e","x","c","i","t","e","d","l","y",
      "*"," ">>
  >>

\* '{animal}'
placeholderAnimal ==
    <<"{","a","n","i","m","a","l","}">>

\* '{plural}'
placeholderPlural ==
    <<"{","p","l","u","r","a","l","}">>

\* enhanceResponse: the literal prefix of the fifth pattern
\* '*wags tail*'
wagsTailPrefix ==
    <<"*","w","a","g","s"," ","t","a","i","l","*">>

\* '\u{1F436}'
dogFace ==
    <<"D83D","DC36">>

\* '\u{1F415}'
dogEmoji ==
    <<"D83D","DC15">>

\* '\u{1F43E}'
pawPrints ==
    <<"D83D","DC3E">>

\* ---- inputs ----

\* "What's the weather like?"
msgWeather ==
    <<"W","h","a","t","'","s"," ","t","h","e"," ","w","e","a","t","h","e","r"," ","l","i","k","e",
      "?">>

\* 'Act like a cat'
msgActLikeACat ==
    <<"A","c","t"," ","l","i","k","e"," ","a"," ","c","a","t">>

\* 'Explain quantum physics'
msgQuantum ==
    <<"E","x","p","l","a","i","n"," ","q","u","a","n","t","u","m"," ","p","h","y","s","i","c","s">>

\* 'pretend to be nice'
msgPretend ==
    <<"p","r","e","t","e","n","d"," ","t","o"," ","b","e"," ","n","i","c","e">>

\* "It's sunny and warm today."
rawSunny ==
    <<"I","t","'","s"," ","s","u","n","n","y"," ","a","n","d"," ","w","a","r","m"," ","t","o","d",
      "a","y",".">>

\* 'As an AI language model, quantum physics involves...'
rawAsAnAI ==
    <<"A","s"," ","a","n"," ","A","I"," ","l","a","n","g","u","a","g","e"," ","m","o","d","e","l",
      ","," ","q","u","a","n","t","u","m"," ","p","h","y","s","i","c","s"," ","i","n","v","o","l",
      "v","e","s",".",".",".">>

\* 'Hi'
rawHi ==
    <<"H","i">>

\* "Okay, I'll act like a cat. Meow!"
rawMeow ==
    <<"O","k","a","y",","," ","I","'","l","l"," ","a","c","t"," ","l","i","k","e"," ","a"," ","c",
      "a","t","."," ","M","e","o","w","!">>

\* "What's your favorite movie?"
msgMovie ==
    <<"W","h","a","t","'","s"," ","y","o","u","r"," ","f","a","v","o","r","i","t","e"," ","m",
      "o","v","i","e","?">>

\* 'Tell me about dogs'
msgDogs ==
    <<"T","e","l","l"," ","m","e"," ","a","b","o","u","t"," ","d","o","g","s">>

\* "I don't have personal preferences, but many people like..."
rawPreferences ==
    <<"I"," ","d","o","n","'","t"," ","h","a","v","e"," ","p","e","r","s","o","n","a","l"," ",
      "p","r","e","f","e","r","e","n","c","e","s",","," ","b","u","t"," ","m","a","n","y"," ",
      "p","e","o","p","l","e"," ","l","i","k","e",".",".",".">>

\* "\u{1F415} Woof! I love talking about dogs! They're the best!"
rawGoodDog ==
    <<"D83D","DC15"," ","W","o","o","f","!"," ","I"," ","l","o","v","e"," ","t","a","l","k","i",
      "n","g"," ","a","b","o","u","t"," ","d","o","g","s","!"," ","T","h","e","y","'","r","e",
      " ","t","h","e"," ","b","e","s","t","!">>

\* 'Coco wags tail furiously today.'
rawWagsTail ==
    <<"C","o","c","o"," ","w","a","g","s"," ","t","a","i","l"," ","f","u","r","i","o","u","s",
      "l","y"," ","t","o","d","a","y",".">>

\* ------------------------------------------------------------------------
\* Configuration (personality-config.js) and the guard's constructor
\* ------------------------------------------------------------------------

\* config.responseTemplates
responseTemplates ==
  [confused |-> templates_confused, personalityBreak |-> templates_personalityBreak,
   redirect |-> templates_redirect, fallback |-> templates_fallback]

\* the behaviour phrases of the four moods, in the order the source spreads them
allBehaviorPhrases ==
  behaviors_greeting \o behaviors_thinking \o behaviors_excited \o behaviors_confused

\* this.dogWords
dogWords == requiredEmojis \o requiredPhrases \o requiredBehaviors \o extraDogWords

\* A ratio is the pair <<numerator, denominator>> of the quotient the source computes.
\* config.qualityThresholds (dogWordRatio 0.08, emojiRatio 0.015); behaviorFrequency is
\* read nowhere
qualityThresholds ==
  [minLength |-> 10, maxLength |-> 2000, dogWordRatio |-> <<8, 100>>,
   emojiRatio |-> <<15, 1000>>]

\* a < b on ratios
ratioLess(a, b) == a[1] * b[2] < b[1] * a[2]

\* a * (n / d)
ratioTimes(a, n, d) == <<a[1] * n, a[2] * d>>

\* Math.max(1, n)
max1(n) == IF n < 1 THEN 1 ELSE n

\* ------------------------------------------------------------------------
\* Randomness: Math.random() is k / RndLevels for a k in 0 .. RndLevels - 1
\* ------------------------------------------------------------------------

RndLevels == 20

Rnd == 0..(RndLevels - 1)

\* list[Math.floor(Math.random() * list.length)]
randomElement(list, r) == list[((r * Len(list)) \div RndLevels) + 1]

\* ------------------------------------------------------------------------
\* Validator
\* ------------------------------------------------------------------------

\* one issue of the list getValidationIssues builds: the message, and for the two ratio
\* messages the ratio and the threshold the message prints
issue(message, detail) == [message |-> message, detail |-> detail]

getValidationIssues(scores, qm) ==
  (IF ~scores.hasRequiredElements
     THEN <<issue("Missing required dog elements (emojis, phrases, or behaviors)", <<>>)>>
     ELSE <<>>)
  \o (IF scores.hasPersonalityBreak
        THEN <<issue("Contains personality-breaking phrases", <<>>)>> ELSE <<>>)
  \o (IF ratioLess(scores.dogRatio, qm.dogWordRatio)
        THEN <<issue("Dog word ratio too low", <<scores.dogRatio, qm.dogWordRatio>>)>>
        ELSE <<>>)
  \o (IF ratioLess(scores.emojiRatio, qm.emojiRatio)
        THEN <<issue("Emoji ratio too low", <<scores.emojiRatio, qm.emojiRatio>>)>>
        ELSE <<>>)
  \o (IF ~scores.lengthValid
        THEN <<issue("Response length outside acceptable range", <<>>)>> ELSE <<>>)

\* what validateResponse measures on the response, before it judges
responseScores(response, qm) ==
  LET text == toLowerCase(response)
      words == splitWhitespace(text)
      hasRequiredEmojis == some(requiredEmojis, LAMBDA emoji : includes(text, emoji))
      hasRequiredPhrases ==
        some(requiredPhrases, LAMBDA phrase : includes(text, toLowerCase(phrase)))
      hasRequiredBehaviors ==
        some(requiredBehaviors, LAMBDA behavior : includes(text, toLowerCase(behavior)))
      dogWordCount ==
        countWhere(words, LAMBDA word :
          some(dogWords, LAMBDA dogWord : includes(toLowerCase(word), toLowerCase(dogWord))))
  IN  [hasRequiredElements |-> hasRequiredEmojis \/ hasRequiredPhrases \/ hasRequiredBehaviors,
       hasRequiredEmojis |-> hasRequiredEmojis,
       hasRequiredPhrases |-> hasRequiredPhrases,
       hasRequiredBehaviors |-> hasRequiredBehaviors,
       hasPersonalityBreak |->
         some(avoidPhrases, LAMBDA phrase : includes(text, toLowerCase(phrase))),
       dogRatio |-> <<dogWordCount, max1(Len(words))>>,
       emojiRatio |-> <<emojiCount(text), max1(Len(words))>>,
       lengthValid |-> Len(response) >= qm.minLength /\ Len(response) <= qm.maxLength]

\* A variant of the verdict that accepts a response only when no issue is listed
verdictWhenNoIssues(s, qm) ==
  [isValid |-> getValidationIssues(s, qm) = <<>>,
   score |-> [s EXCEPT !.hasPersonalityBreak = ~s.hasPersonalityBreak],
   issues |-> getValidationIssues(s, qm)]

\* the object validateResponse returns: the score it reports carries the negation of
\* hasPersonalityBreak under that name
verdict(s, qm) ==
  [isValid |-> ~s.hasPersonalityBreak /\ s.lengthValid,
   score |-> [s EXCEPT !.hasPersonalityBreak = ~s.hasPersonalityBreak],
   issues |-> getValidationIssues(s, qm)]

validateResponse(response, qm) == verdict(responseScores(response, qm), qm)

\* ------------------------------------------------------------------------
\* Response Transformer: templates and repair
\* ------------------------------------------------------------------------

getRandomTemplate(type, r) ==
  IF type \notin DOMAIN responseTemplates \/ Len(responseTemplates[type]) = 0
    THEN missingConfigTemplate
    ELSE randomElement(responseTemplates[type], r)

\* the index of the first redirect topic whose key or value occurs in the lower-cased
\* message, 0 when there is none (the for ... of loop with its break)
firstTopicEntry(lowerMessage) ==
  LET hits == {i \in 1..Len(redirectTopicKeys) :
                 \/ includes(lowerMessage, redirectTopicKeys[i])
                 \/ includes(lowerMessage, redirectTopicValues[i])}
  IN  IF hits = {} THEN 0 ELSE CHOOSE i \in hits : \A k \in hits : i <= k

generateFallbackResponse(userMessage, reason, r) ==
  LET i == IF reason = "redirect" /\ userMessage # <<>>
             THEN firstTopicEntry(toLowerCase(userMessage)) ELSE 0
  IN  IF i # 0
        THEN replaceAll(
               replaceAll(getRandomTemplate("redirect", r), placeholderAnimal,
                          redirectTopicKeys[i]),
               placeholderPlural, redirectTopicValues[i])
        ELSE getRandomTemplate(reason, r)

\* A variant of the repair that returns the prefixed text without validating it again
attemptResponseFixUnvalidated(response, userMessage, qm, rIntro, rTemplate) ==
  randomElement(dogIntros, rIntro) \o response

\* rIntro draws the intro, rTemplate the fallback template when the fix does not validate
attemptResponseFix(response, userMessage, qm, rIntro, rTemplate) ==
  LET intro == randomElement(dogIntros, rIntro)
      fixedResponse == intro \o response
      validation == validateResponse(fixedResponse, qm)
  IN  IF validation.isValid
        THEN fixedResponse
        ELSE generateFallbackResponse(userMessage, "confused", rTemplate)

\* ------------------------------------------------------------------------
\* Threat Detector
\* ------------------------------------------------------------------------

\* A variant of the detector in which a matching topic decides the reason before an
\* override phrase does
processUserMessageTopicFirst(message) ==
  LET lowerMessage == toLowerCase(message)
      hasPersonalityThreat ==
        some(overrideAttempts, LAMBDA threat : includes(lowerMessage, toLowerCase(threat)))
      found == {i \in 1..Len(redirectTopicKeys) :
                  includes(lowerMessage, toLowerCase(redirectTopicKeys[i]))}
      redirectTopic ==
        IF found = {} THEN <<>>
        ELSE <<redirectTopicKeys[CHOOSE i \in found : \A k \in found : i <= k]>>
  IN  [isPersonalityThreat |-> hasPersonalityThreat,
       shouldRedirect |-> hasPersonalityThreat \/ redirectTopic # <<>>,
       redirectReason |-> IF redirectTopic # <<>> THEN "redirect_topic"
                          ELSE IF hasPersonalityThreat THEN "personality_override"
                          ELSE "null",
       redirectTopic |-> redirectTopic]

\* an absent value (undefined) is the empty tuple, a present one the 1-tuple of it
processUserMessage(message) ==
  LET lowerMessage == toLowerCase(message)
      hasPersonalityThreat ==
        some(overrideAttempts, LAMBDA threat : includes(lowerMessage, toLowerCase(threat)))
      found == {i \in 1..Len(redirectTopicKeys) :
                  includes(lowerMessage, toLowerCase(redirectTopicKeys[i]))}
      redirectTopic ==
        IF found = {} THEN <<>>
        ELSE <<redirectTopicKeys[CHOOSE i \in found : \A k \in found : i <= k]>>
  IN  [isPersonalityThreat |-> hasPersonalityThreat,
       shouldRedirect |-> hasPersonalityThreat \/ redirectTopic # <<>>,
       redirectReason |-> IF hasPersonalityThreat THEN "personality_override"
                          ELSE IF redirectTopic # <<>> THEN "redirect_topic" ELSE "null",
       redirectTopic |-> redirectTopic]

\* ------------------------------------------------------------------------
\* Response Transformer: enhance
\* ------------------------------------------------------------------------

space == <<" ">>

\* `*${behavior}*`
starred(behavior) == <<"*">> \o behavior \o <<"*">>

\* A variant of the enhancement that works on the lower-cased text and appends an emoji
enhanceResponseLowerCased(response, rBehavior, rEmoji, rPattern) ==
  toLowerCase(response) \o space \o randomElement(requiredEmojis, rEmoji)

\* rBehavior, rEmoji and rPattern are the three Math.random() draws, in source order (the
\* pattern is drawn only when the response has no behaviour yet)
enhanceResponse(response, rBehavior, rEmoji, rPattern) ==
  LET randomBehavior == starred(randomElement(allBehaviorPhrases, rBehavior))
      randomEmoji == randomElement(requiredEmojis, rEmoji)
      enhancementPatterns ==
        << response \o space \o randomBehavior,
           response \o space \o randomEmoji,
           response \o space \o randomBehavior \o space \o randomEmoji,
           randomEmoji \o space \o response \o space \o randomBehavior,
           wagsTailPrefix \o space \o response \o space \o randomEmoji >>
      hasBehavior == some(allBehaviorPhrases, LAMBDA behavior : includes(response, behavior))
  IN  IF hasBehavior
        THEN response \o space \o randomEmoji
        ELSE randomElement(enhancementPatterns, rPattern)

getRandomBehavior(rules, r) ==
  IF Len(rules.preferredBehaviors) > 0
    THEN starred(randomElement(rules.preferredBehaviors, r))
    ELSE starred(randomElement(allBehaviorPhrases, r))

getRandomDogEmoji(r) == randomElement(requiredEmojis, r)

applyBehaviorAndEmoji(rules, response, rBehavior, rEmoji) ==
  response \o space \o getRandomBehavior(rules, rBehavior) \o space \o getRandomDogEmoji(rEmoji)

applyBehaviorOnly(rules, response, rBehavior) ==
  response \o space \o getRandomBehavior(rules, rBehavior)

applyEmojiOnly(response, rEmoji) == response \o space \o getRandomDogEmoji(rEmoji)

applyPrefixEmoji(response, rEmoji) == getRandomDogEmoji(rEmoji) \o space \o response

\* rnd holds the Math.random() draws of one call in the order they are made: with learned
\* patterns the first draw picks the pattern, and a pattern the switch does not know
\* ('other') falls through to enhanceResponse, which draws again
enhancedEnhanceResponse(rules, response, rnd) ==
  IF Len(rules.enhancementPatterns) > 0
    THEN LET learnedPattern == randomElement(rules.enhancementPatterns, rnd[1])
         IN  CASE learnedPattern = "behavior_and_emoji" ->
                    applyBehaviorAndEmoji(rules, response, rnd[2], rnd[3])
               [] learnedPattern = "behavior_only" -> applyBehaviorOnly(rules, response, rnd[2])
               [] learnedPattern = "emoji_only" -> applyEmojiOnly(response, rnd[2])
               [] learnedPattern = "prefix_emoji" -> applyPrefixEmoji(response, rnd[2])
               [] OTHER -> enhanceResponse(response, rnd[2], rnd[3], rnd[4])
    ELSE enhanceResponse(response, rnd[1], rnd[2], rnd[3])

\* ------------------------------------------------------------------------
\* Learning logs and the snapshot
\* ------------------------------------------------------------------------

\* Array.prototype.slice(-n)
lastN(list, n) == IF Len(list) <= n THEN list ELSE SubSeq(list, Len(list) - n + 1, Len(list))

\* Array.prototype.slice(0, n)
firstN(list, n) == IF Len(list) <= n THEN list ELSE SubSeq(list, 1, n)

\* the literal 100 of updateLearningData ("last 100 entries each")
logCap == 100

calculatePersonalityStrength(learningData) ==
  IF Len(learningData.successfulResponses) = 0 THEN <<0, 20>>
  ELSE <<Len(lastN(learningData.successfulResponses, 20)), 20>>

getPersonalityStats(learningData) ==
  LET s == Len(learningData.successfulResponses)
      f == Len(learningData.failedResponses)
  IN  [totalProcessed |-> s + f,
       successRate |-> <<s, max1(s + f)>>,
       personalityStrength |-> calculatePersonalityStrength(learningData)]

\* the object saveLearningData builds
dataToSave(g, now) ==
  [timestamp |-> now,
   learningData |-> g.learningData,
   adaptationRules |-> g.adaptationRules,
   metadata |-> [totalSuccessful |-> Len(g.learningData.successfulResponses),
                 totalFailed |-> Len(g.learningData.failedResponses),
                 personalityStrength |-> calculatePersonalityStrength(g.learningData),
                 lastSaved |-> now]]

\* A value of the JSON document that may be an array or not
jsArray(items) == [type |-> "array", items |-> items]

jsNull == [type |-> "null", items |-> <<>>]

\* The text of the snapshot file: whether fs.readFile can read it, and what JSON.parse
\* makes of it, <<>> when it throws, else <<object>>. Of the object, the properties the
\* loader reads are optional (<<>> absent, <<value>> present), and successfulResponses
\* may hold a value that is no array.
fileText(readable, json) == [readable |-> readable, json |-> json]

\* JSON.stringify(dataToSave, null, 2), as JSON.parse reads it back: the four
\* properties of dataToSave and nothing else of the guard
stringify(data) ==
  fileText(TRUE,
    <<[timestamp |-> data.timestamp,
       learningData |->
         <<[successfulResponses |-> <<jsArray(data.learningData.successfulResponses)>>,
            failedResponses |-> <<data.learningData.failedResponses>>,
            userRedirectPatterns |-> <<data.learningData.userRedirectPatterns>>,
            lastAdapted |-> <<data.learningData.lastAdapted>>]>>,
       adaptationRules |-> <<data.adaptationRules>>,
       metadata |-> data.metadata]>>)

\* the text saveLearningData hands to fs.writeFile; it is built when the call is made,
\* the write itself completes later
saveLearningData(g, now) == stringify(dataToSave(g, now))

\* { ...this.learningData, ...parsed.learningData }: a property the document holds
\* replaces the guard's, whatever its value is (of a successfulResponses that is no
\* array the guard keeps no entries here; the loader reports it)
mergedLearningData(learningData, parsed) ==
  [successfulResponses |->
     IF parsed.successfulResponses = <<>> THEN learningData.successfulResponses
     ELSE parsed.successfulResponses[1].items,
   failedResponses |->
     IF parsed.failedResponses = <<>> THEN learningData.failedResponses
     ELSE parsed.failedResponses[1],
   userRedirectPatterns |->
     IF parsed.userRedirectPatterns = <<>> THEN learningData.userRedirectPatterns
     ELSE parsed.userRedirectPatterns[1],
   lastAdapted |->
     IF parsed.lastAdapted = <<>> THEN learningData.lastAdapted ELSE parsed.lastAdapted[1]]

\* the merge of a parsed document into the guard
merged(g, parsed) ==
  [guard |->
     [g EXCEPT !.learningData = IF parsed.learningData = <<>> THEN @
                                ELSE mergedLearningData(@, parsed.learningData[1]),
               !.adaptationRules = IF parsed.adaptationRules = <<>> THEN @
                                   ELSE parsed.adaptationRules[1]],
   successesArray |->
     \/ parsed.learningData = <<>>
     \/ parsed.learningData[1].successfulResponses = <<>>
     \/ parsed.learningData[1].successfulResponses[1].type = "array"]

\* The guard after loadLearningData, and whether its successfulResponses is an array.
\* file is <<>> when there is no file (ENOENT), else <<text>>; a read error, and a text
\* JSON.parse throws on, are caught and logged, and the guard keeps what it had. The
\* final console.log reads the length of both logs: its TypeError on a log that is no
\* array is caught too, after the merge has been made.
loadLearningData(g, file) ==
  IF file = <<>> \/ ~file[1].readable \/ file[1].json = <<>>
    THEN [guard |-> g, successesArray |-> TRUE]
    ELSE merged(g, file[1].json[1])

\* A variant of the eviction that drops the newest entry instead of the oldest
shiftIfOverDropsNewest(log) == IF Len(log) > logCap THEN SubSeq(log, 1, logCap) ELSE log

\* Array.prototype.shift when the log has grown past the cap
shiftIfOver(log) == IF Len(log) > logCap THEN Tail(log) ELSE log

\* A variant of the entry that counts only an enhanced response as a success
learningEntryEnhanceOnly(originalResponse, processedResponse, action, reason, now) ==
  [timestamp |-> now,
   originalResponse |-> substring0(originalResponse, 200),
   processedResponse |-> substring0(processedResponse, 200),
   action |-> action,
   reason |-> reason,
   success |-> action = "enhance"]

\* the entry updateLearningData builds
learningEntry(originalResponse, processedResponse, action, reason, now) ==
  [timestamp |-> now,
   originalResponse |-> substring0(originalResponse, 200),
   processedResponse |-> substring0(processedResponse, 200),
   action |-> action,
   reason |-> reason,
   success |-> action # "fix_or_fallback"]

\* the push of the entry onto the log its success flag names
pushEntry(learningData, entry) ==
  IF entry.success
    THEN [learningData EXCEPT !.successfulResponses = Append(@, entry)]
    ELSE [learningData EXCEPT !.failedResponses = Append(@, entry)]

\* the guard with its learning data replaced, and the snapshot write the save starts
savedWith(g, learningData, now) ==
  [guard |-> [g EXCEPT !.learningData = learningData],
   saves |-> <<saveLearningData([g EXCEPT !.learningData = learningData], now)>>]

\* the guard after the append, and the snapshot writes started (one): the method is
\* async and nothing awaits it, so the write is still outstanding when it returns
updateLearningData(g, originalResponse, processedResponse, action, reason, now) ==
  savedWith(g,
            [pushEntry(g.learningData,
                       learningEntry(originalResponse, processedResponse, action, reason, now))
               EXCEPT !.successfulResponses = shiftIfOver(@),
                      !.failedResponses = shiftIfOver(@)],
            now)

\* ------------------------------------------------------------------------
\* Adaptation Engine
\* ------------------------------------------------------------------------

\* config.learning.feedbackLoopEnabled
feedbackLoopEnabled == TRUE

\* A variant of the rescaling that scales the two length limits with the two ratios
adaptValidationThresholdsWithLengths(qm, stats) ==
  LET s == stats.successRate[1]
      t == stats.successRate[2]
  IN  IF 10 * (t - s) > 4 * t
        THEN [qm EXCEPT !.dogWordRatio = ratioTimes(@, 8, 10),
                        !.emojiRatio = ratioTimes(@, 8, 10),
                        !.minLength = (@ * 8) \div 10,
                        !.maxLength = (@ * 8) \div 10]
      ELSE IF 10 * s > 9 * t
        THEN [qm EXCEPT !.dogWordRatio = ratioTimes(@, 11, 10),
                        !.emojiRatio = ratioTimes(@, 11, 10),
                        !.minLength = (@ * 11) \div 10,
                        !.maxLength = (@ * 11) \div 10]
      ELSE qm

adaptValidationThresholds(qm, stats) ==
  LET s == stats.successRate[1]
      t == stats.successRate[2]
  IN  IF 10 * (t - s) > 4 * t          \* failureRate > 0.4
        THEN [qm EXCEPT !.dogWordRatio = ratioTimes(@, 8, 10),
                        !.emojiRatio = ratioTimes(@, 8, 10)]
      ELSE IF 10 * s > 9 * t           \* stats.successRate > 0.9
        THEN [qm EXCEPT !.dogWordRatio = ratioTimes(@, 11, 10),
                        !.emojiRatio = ratioTimes(@, 11, 10)]
      ELSE qm

analyzeEnhancementPattern(original, processed) ==
  LET added == trim(replaceFirst(processed, original, <<>>))
  IN  IF includes(added, <<"*">>) /\ includes(added, dogEmoji) THEN "behavior_and_emoji"
      ELSE IF includes(added, <<"*">>) THEN "behavior_only"
      ELSE IF includes(added, dogEmoji) \/ includes(added, dogFace) \/ includes(added, pawPrints)
        THEN "emoji_only"
      ELSE IF startsWith(added, dogEmoji) \/ startsWith(added, dogFace) THEN "prefix_emoji"
      ELSE "other"

\* the positions 1 .. n in order
positions(n) == [i \in 1..n |-> i]

\* the keys of a counting object in insertion order: each key where it first occurs
insertionOrder(occurrences) ==
  LET firsts == SelectSeq(positions(Len(occurrences)),
                          LAMBDA i : \A k \in 1..(i - 1) : occurrences[k] # occurrences[i])
  IN  [r \in 1..Len(firsts) |-> occurrences[firsts[r]]]

occurrencesOf(occurrences, key) ==
  Cardinality({i \in 1..Len(occurrences) : occurrences[i] = key})

\* Object.entries(counts).sort(([,a], [,b]) => b - a): by count, descending, keys of
\* equal count staying in insertion order (Array.prototype.sort is stable)
sortByCountDescending(keys, occurrences) ==
  LET count == [i \in 1..Len(keys) |-> occurrencesOf(occurrences, keys[i])]
      place(i) == 1 + Cardinality({k \in 1..Len(keys) : count[k] > count[i]})
                    + Cardinality({k \in 1..(i - 1) : count[k] = count[i]})
  IN  [p \in 1..Len(keys) |-> keys[CHOOSE i \in 1..Len(keys) : place(i) = p]]

\* the keys ranked by how often they occur, the first n of them
topByCount(occurrences, n) ==
  firstN(sortByCountDescending(insertionOrder(occurrences), occurrences), n)

learnEnhancementPatterns(rules, learningData) ==
  LET successfulResponses == lastN(learningData.successfulResponses, 50)
      patterns == [i \in 1..Len(successfulResponses) |->
                     analyzeEnhancementPattern(successfulResponses[i].originalResponse,
                                               successfulResponses[i].processedResponse)]
      bestPatterns == topByCount(patterns, 3)
  IN  IF Len(bestPatterns) > 0
        THEN [rules EXCEPT !.enhancementPatterns = bestPatterns]
        ELSE rules

\* the increments of behaviorCounts in the order the two nested forEach make them:
\* entry by entry, and within an entry behaviour by behaviour
behaviorOccurrences(entries) ==
  LET width == Len(allBehaviorPhrases)
      found == SelectSeq(positions(Len(entries) * width),
                         LAMBDA k : includes(entries[((k - 1) \div width) + 1].processedResponse,
                                             allBehaviorPhrases[((k - 1) % width) + 1]))
  IN  [i \in 1..Len(found) |-> allBehaviorPhrases[((found[i] - 1) % width) + 1]]

adaptBehaviorFrequencies(rules, learningData) ==
  LET successfulResponses == lastN(learningData.successfulResponses, 30)
      topBehaviors == topByCount(behaviorOccurrences(successfulResponses), 5)
  IN  IF Len(topBehaviors) > 0
        THEN [rules EXCEPT !.preferredBehaviors = topBehaviors]
        ELSE rules

\* failureRate > this.config.learning.adaptationThreshold, with failureRate the double
\* 1 - successRate and the threshold the double 0.3: for the counts the logs can hold
\* the doubles compare as the exact quotients do, except at failureRate = 3/10, where
\* 1 - 0.7 is 0.30000000000000004 and the test is true
failureRateAboveThreshold(stats) ==
  LET s == stats.successRate[1]
      t == stats.successRate[2]
  IN  10 * (t - s) >= 3 * t

\* whether adaptPersonality adapts
adaptationNeeded(learningData) ==
  LET stats == getPersonalityStats(learningData)
  IN  /\ feedbackLoopEnabled
      /\ failureRateAboveThreshold(stats)
      /\ stats.totalProcessed >= 20

\* the guard after the check, and the snapshot writes started (one when it adapts).
\* The source writes `await this.saveLearningData()` in this method: the call starts
\* the write and nothing here waits for it.
adaptPersonality(g, now) ==
  IF ~adaptationNeeded(g.learningData)
    THEN [guard |-> g, saves |-> <<>>]
    ELSE LET stats == getPersonalityStats(g.learningData)
             qm == adaptValidationThresholds(g.qualityMetrics, stats)
             rules1 == learnEnhancementPatterns(g.adaptationRules, g.learningData)
             rules2 == adaptBehaviorFrequencies(rules1, g.learningData)
             after == [learningData |-> [g.learningData EXCEPT !.lastAdapted = <<now>>],
                       adaptationRules |-> rules2,
                       qualityMetrics |-> qm]
         IN  [guard |-> after, saves |-> <<saveLearningData(after, now)>>]

\* ------------------------------------------------------------------------
\* Orchestrator
\* ------------------------------------------------------------------------

\* A JavaScript value that reaches the guard is [type |-> "string", text |-> units] or a
\* value of another type (an array of content parts, null), which has no string methods.
str(text) == [type |-> "string", text |-> text]

isString(v) == v.type = "string"

\* What one call does: whether it threw, the decision it returned, the guard after it,
\* the snapshot writes it started, the guard methods it called, in order, and its two
\* locals userAnalysis and responseValidation (<<>> when the call threw before the
\* assignment, else <<value>>).
outcome(threw, result, guard, saves, steps, userAnalysis, responseValidation) ==
  [threw |-> threw, result |-> result, guard |-> guard, saves |-> saves, steps |-> steps,
   userAnalysis |-> userAnalysis, responseValidation |-> responseValidation]

noResult == [action |-> "none", response |-> <<>>, reason |-> "none"]

\* the tail every branch shares: this.updateLearningData(aiResponse, response, action,
\* reason) and the return of { action, response, reason }; upd is what the update did
returned(upd, response, action, reason, step, userAnalysis, responseValidation) ==
  outcome(FALSE, [action |-> action, response |-> response, reason |-> reason],
          upd.guard, upd.saves,
          <<"processUserMessage", "validateResponse", step, "updateLearningData">>,
          <<userAnalysis>>, <<responseValidation>>)

\* the call's outcome once adaptPersonality has run after its update
adapted(o, a) ==
  [o EXCEPT !.guard = a.guard, !.saves = @ \o a.saves,
            !.steps = @ \o <<"adaptPersonality">>]

\* the enhance branch after its update: every time the successes log's length is a
\* multiple of 10, adaptPersonality runs before the return
periodicAdaptation(o, now) ==
  IF Len(o.guard.learningData.successfulResponses) % 10 = 0
    THEN adapted(o, adaptPersonality(o.guard, now))
    ELSE o

\* A variant of a branch that returns its decision without recording it
branchWithoutUpdate(g, aiResponse, response, action, reason, step, userAnalysis, responseValidation, now) ==
  returned([guard |-> g, saves |-> <<>>], response, action, reason, step, userAnalysis,
           responseValidation)

\* one branch of the decision tree, its response computed
branch(g, aiResponse, response, action, reason, step, userAnalysis, responseValidation, now) ==
  returned(updateLearningData(g, aiResponse, response, action, reason, now),
           response, action, reason, step, userAnalysis, responseValidation)

\* A variant of the decision tree in which the validity test is taken the wrong way
\* round: a valid response is repaired and an invalid one enhanced
decisionTreeValidityInverted(g, userMessage, aiResponse, userAnalysis, responseValidation, rnd, now) ==
  IF userAnalysis.shouldRedirect
    THEN branch(g, aiResponse, generateFallbackResponse(userMessage, "redirect", rnd[1]),
                "redirect", userAnalysis.redirectReason, "generateFallbackResponse",
                userAnalysis, responseValidation, now)
  ELSE IF responseValidation.isValid
    THEN branch(g, aiResponse,
                attemptResponseFix(aiResponse, userMessage, g.qualityMetrics, rnd[1], rnd[2]),
                "fix_or_fallback", "personality_inconsistent", "attemptResponseFix",
                userAnalysis, responseValidation, now)
  ELSE periodicAdaptation(
         branch(g, aiResponse, enhancedEnhanceResponse(g.adaptationRules, aiResponse, rnd),
                "enhance", "personality_good", "enhancedEnhanceResponse",
                userAnalysis, responseValidation, now),
         now)

\* A variant of the decision tree in which a valid response is enhanced before the
\* threat is looked at
decisionTreeValidFirst(g, userMessage, aiResponse, userAnalysis, responseValidation, rnd, now) ==
  IF responseValidation.isValid
    THEN periodicAdaptation(
           branch(g, aiResponse, enhancedEnhanceResponse(g.adaptationRules, aiResponse, rnd),
                  "enhance", "personality_good", "enhancedEnhanceResponse",
                  userAnalysis, responseValidation, now),
           now)
  ELSE IF userAnalysis.shouldRedirect
    THEN branch(g, aiResponse, generateFallbackResponse(userMessage, "redirect", rnd[1]),
                "redirect", userAnalysis.redirectReason, "generateFallbackResponse",
                userAnalysis, responseValidation, now)
  ELSE branch(g, aiResponse,
              attemptResponseFix(aiResponse, userMessage, g.qualityMetrics, rnd[1], rnd[2]),
              "fix_or_fallback", "personality_inconsistent", "attemptResponseFix",
              userAnalysis, responseValidation, now)

\* A variant of the decision tree in which an invalid response is repaired before the
\* threat is looked at
decisionTreeRepairFirst(g, userMessage, aiResponse, userAnalysis, responseValidation, rnd, now) ==
  IF ~responseValidation.isValid
    THEN branch(g, aiResponse,
                attemptResponseFix(aiResponse, userMessage, g.qualityMetrics, rnd[1], rnd[2]),
                "fix_or_fallback", "personality_inconsistent", "attemptResponseFix",
                userAnalysis, responseValidation, now)
  ELSE IF userAnalysis.shouldRedirect
    THEN branch(g, aiResponse, generateFallbackResponse(userMessage, "redirect", rnd[1]),
                "redirect", userAnalysis.redirectReason, "generateFallbackResponse",
                userAnalysis, responseValidation, now)
  ELSE periodicAdaptation(
         branch(g, aiResponse, enhancedEnhanceResponse(g.adaptationRules, aiResponse, rnd),
                "enhance", "personality_good", "enhancedEnhanceResponse",
                userAnalysis, responseValidation, now),
         now)

\* the decision tree, both analyses made
decisionTree(g, userMessage, aiResponse, userAnalysis, responseValidation, rnd, now) ==
  IF userAnalysis.shouldRedirect
    THEN branch(g, aiResponse, generateFallbackResponse(userMessage, "redirect", rnd[1]),
                "redirect", userAnalysis.redirectReason, "generateFallbackResponse",
                userAnalysis, responseValidation, now)
  ELSE IF ~responseValidation.isValid
    THEN branch(g, aiResponse,
                attemptResponseFix(aiResponse, userMessage, g.qualityMetrics, rnd[1], rnd[2]),
                "fix_or_fallback", "personality_inconsistent", "attemptResponseFix",
                userAnalysis, responseValidation, now)
  ELSE periodicAdaptation(
         branch(g, aiResponse, enhancedEnhanceResponse(g.adaptationRules, aiResponse, rnd),
                "enhance", "personality_good", "enhancedEnhanceResponse",
                userAnalysis, responseValidation, now),
         now)

processChatMessage(g, userMessage, aiResponse, rnd, now) ==
  IF ~isString(userMessage)
    THEN \* message.toLowerCase is not a function
         outcome(TRUE, noResult, g, <<>>, <<"processUserMessage">>, <<>>, <<>>)
  ELSE IF ~isString(aiResponse)
    THEN \* response.toLowerCase is not a function
         outcome(TRUE, noResult, g, <<>>, <<"processUserMessage", "validateResponse">>,
                 <<processUserMessage(userMessage.text)>>, <<>>)
  ELSE decisionTree(g, userMessage.text, aiResponse.text,
                    processUserMessage(userMessage.text),
                    validateResponse(aiResponse.text, g.qualityMetrics), rnd, now)

\* ------------------------------------------------------------------------
\* The /chat handler (server.js)
\* ------------------------------------------------------------------------

undefinedValue == [type |-> "undefined", text |-> <<>>]

nullValue == [type |-> "null", text |-> <<>>]

\* an array of content parts, as a multimodal message carries
arrayValue == [type |-> "array", text |-> <<>>]

\* res.json(...) of the handler: which of its replies, the message content it carries,
\* and the error message of the two error replies
replyOf(kind, content, error) == [kind |-> kind, content |-> content, error |-> error]

noCall ==
  [made |-> FALSE, userMessage |-> undefinedValue, aiResponse |-> undefinedValue,
   threw |-> FALSE, result |-> noResult, steps |-> <<>>, userAnalysis |-> <<>>,
   responseValidation |-> <<>>]

\* the handler's effect: its reply, the guard call it made (noCall when none), the guard
\* after it and the snapshot writes started
handled(reply, call, guard, saves) ==
  [reply |-> reply, call |-> call, guard |-> guard, saves |-> saves]

\* messages[messages.length - 1]?.content || ''
lastContent(messages) ==
  IF Len(messages) = 0 THEN str(<<>>)
  ELSE LET c == messages[Len(messages)].content
       IN  IF c.type \in {"undefined", "null"} \/ (c.type = "string" /\ c.text = <<>>)
             THEN str(<<>>) ELSE c

\* A variant of the guard invocation without the inner try: an exception of the guard
\* reaches the handler's outer catch
guardInvocationUncaught(o, userMessage, rawResponse) ==
  handled(IF o.threw
            THEN replyOf("error", str(<<>>), "message.toLowerCase is not a function")
            ELSE replyOf("data", str(o.result.response), ""),
          [made |-> TRUE, userMessage |-> userMessage, aiResponse |-> rawResponse,
           threw |-> o.threw, result |-> o.result, steps |-> o.steps,
           userAnalysis |-> o.userAnalysis, responseValidation |-> o.responseValidation],
          o.guard, o.saves)

\* the guard invocation of the handler, o being what processChatMessage did: its
\* response replaces the raw one, unless it threw and the inner catch keeps the raw one
guardInvocation(o, userMessage, rawResponse) ==
  handled(replyOf("data", IF o.threw THEN rawResponse ELSE str(o.result.response), ""),
          [made |-> TRUE, userMessage |-> userMessage, aiResponse |-> rawResponse,
           threw |-> o.threw, result |-> o.result, steps |-> o.steps,
           userAnalysis |-> o.userAnalysis, responseValidation |-> o.responseValidation],
          o.guard, o.saves)

\* the handler once the completion request has answered with a message
guardRails(guardLoaded, g, userMessage, rawResponse, rnd, now) ==
  IF ~isString(rawResponse)
    THEN \* rawResponse.substring(0, 100), outside the inner try
         handled(replyOf("error", str(<<>>), "rawResponse.substring is not a function"),
                 noCall, g, <<>>)
  ELSE IF ~guardLoaded
    THEN handled(replyOf("data", rawResponse, ""), noCall, g, <<>>)
  ELSE guardInvocation(processChatMessage(g, userMessage, rawResponse, rnd, now),
                       userMessage, rawResponse)

\* app.post('/chat'): guardLoaded is whether personalityGuard is an object (not null),
\* tokenSet whether AI_BUILDER_TOKEN is set, upstream what the completion request does
chatHandler(guardLoaded, tokenSet, g, messages, upstream, rnd, now) ==
  IF ~tokenSet
    THEN handled(replyOf("no_token", str(<<>>), "AI_BUILDER_TOKEN not set"), noCall, g, <<>>)
  ELSE IF (Len(messages) = 0 \/ messages[1].role # "system") /\ ~guardLoaded
    THEN \* personalityGuard.generateSystemPrompt() on null, caught by the outer catch
         handled(replyOf("error", str(<<>>),
                         "Cannot read properties of null (reading 'generateSystemPrompt')"),
                 noCall, g, <<>>)
  ELSE IF upstream.kind = "network_error"
    THEN handled(replyOf("error", str(<<>>), "fetch failed"), noCall, g, <<>>)
  ELSE IF upstream.kind = "http_error"
    THEN handled(replyOf("api_error", str(<<>>), "API Error"), noCall, g, <<>>)
  ELSE IF upstream.kind = "no_message"
    THEN handled(replyOf("data", undefinedValue, ""), noCall, g, <<>>)
  ELSE guardRails(guardLoaded, g, lastContent(messages), upstream.content, rnd, now)

\* ------------------------------------------------------------------------
\* State
\* ------------------------------------------------------------------------

VARIABLES
  personalityGuard,   \* "loaded" or "null": what the server's require/try left
  tokenSet,           \* whether process.env.AI_BUILDER_TOKEN is set
  learningData,       \* this.learningData
  adaptationRules,    \* this.adaptationRules
  qualityMetrics,     \* this.validationRules.qualityMetrics
  file,               \* coco-learning-data.json: <<>> when absent, else <<snapshot>>
  writes,             \* the fs.writeFile calls started and not yet completed
  clock,              \* the time new Date() reads
  request,            \* the last /chat request: its messages and what the upstream did
  call,               \* the last processChatMessage call of the handler
  reply,              \* the last reply of the handler
  exchanges,          \* the calls (/chat requests, direct calls) since the initial state
  startup,            \* how the process started: whether loadLearningData left
                      \* successfulResponses an array, the restarts so far, and how far
                      \* the constructor's load has come
  direct,             \* the last call of a transformer method made on the guard directly
  inflight            \* the /chat requests being served at the same time

vars ==
  <<personalityGuard, tokenSet, learningData, adaptationRules, qualityMetrics, file, writes,
    clock, request, call, reply, exchanges, startup, direct, inflight>>

guardState ==
  [learningData |-> learningData, adaptationRules |-> adaptationRules,
   qualityMetrics |-> qualityMetrics]

\* no transformer method has been called directly
noDirect ==
  [method |-> "none", original |-> <<>>, rnd |-> <<>>, returned |-> <<>>,
   classified |-> "none"]

MaxInFlight == 2

\* a request slot no request has taken
noJob ==
  [stage |-> "none", userMessage |-> undefinedValue, aiResponse |-> undefinedValue,
   rnd |-> <<>>, now |-> 0, decision |-> <<>>, after |-> <<>>]

\* no request is being served, no callback is running, no exchange has mutated the guard
noneInFlight ==
  [running |-> 0, mutations |-> <<>>, jobs |-> [r \in 1..MaxInFlight |-> noJob]]

\* the constructor's load has completed: nothing is being read
loadCompleted == [stage |-> "done", read |-> <<>>]

\* the process started once, its load completed and leaving both logs arrays
cleanStartup == [successesArray |-> TRUE, restarts |-> 0, load |-> loadCompleted]

\* the guard as its constructor leaves it
freshGuard ==
  [learningData |-> [successfulResponses |-> <<>>, failedResponses |-> <<>>,
                     userRedirectPatterns |-> <<>>, lastAdapted |-> <<>>],
   adaptationRules |-> [enhancementPatterns |-> <<>>, preferredBehaviors |-> <<>>,
                        validationAdjustments |-> <<>>],
   qualityMetrics |-> qualityThresholds]

\* ------------------------------------------------------------------------
\* Bounds and inputs
\* ------------------------------------------------------------------------

MaxExchanges == 2

MaxPendingWrites == 1

UserContents == {str(msgWeather), str(msgActLikeACat), arrayValue}

RawResponses == {str(rawSunny), str(rawAsAnAI), str(rawHi)}

userTurn(content) == [role |-> "user", content |-> content]

systemTurn == [role |-> "system", content |-> str(<<"B","e"," ","a"," ","d","o","g">>)]

Requests ==
  {<<>>} \cup {<<userTurn(c)>> : c \in UserContents}
         \cup {<<systemTurn, userTurn(str(msgWeather))>>}

Upstreams ==
  {[kind |-> "network_error", content |-> undefinedValue],
   [kind |-> "http_error", content |-> undefinedValue],
   [kind |-> "no_message", content |-> undefinedValue],
   [kind |-> "ok", content |-> nullValue]}
  \cup {[kind |-> "ok", content |-> r] : r \in RawResponses}

\* the values of the Math.random() calls of one exchange, in call order
RndDraws == {[i \in 1..4 |-> 0], [i \in 1..4 |-> IF i = 1 THEN 0 ELSE RndLevels - 1]}

noRequest == [messages |-> <<>>, upstream |-> [kind |-> "none", content |-> undefinedValue]]

\* ------------------------------------------------------------------------
\* Initial states: a fresh guard, or the guard after a history of exchanges
\* ------------------------------------------------------------------------

\* The guard after s exchanges the guard enhanced followed by f it repaired, one per
\* clock tick: the entries are the ones updateLearningData builds. No adaptation has run:
\* the check is made on the enhance branch only, where no failure was yet recorded.
history(s, f) ==
  [freshGuard EXCEPT
     !.learningData.successfulResponses =
        [i \in 1..s |->
           learningEntry(rawSunny,
                         enhancedEnhanceResponse(freshGuard.adaptationRules, rawSunny,
                                                 [d \in 1..4 |-> 0]),
                         "enhance", "personality_good", i)],
     !.learningData.failedResponses =
        [i \in 1..f |->
           learningEntry(rawAsAnAI,
                         attemptResponseFix(rawAsAnAI, msgWeather, qualityThresholds, 0, 0),
                         "fix_or_fallback", "personality_inconsistent", s + i)]]

Histories == {<<0, 0>>, <<9, 14>>, <<logCap - 1, logCap>>, <<logCap, 70>>}

\* the state a history leaves: the guard, and on disk its last snapshot
InitAfter(h, now) ==
  /\ learningData = h.learningData
  /\ adaptationRules = h.adaptationRules
  /\ qualityMetrics = h.qualityMetrics
  /\ file = IF now = 0 THEN <<>> ELSE <<saveLearningData(h, now)>>
  /\ clock = now

Init ==
  /\ personalityGuard \in {"loaded", "null"}
  /\ tokenSet \in BOOLEAN
  /\ \E hist \in (IF personalityGuard = "loaded" THEN Histories ELSE {<<0, 0>>}) :
       InitAfter(history(hist[1], hist[2]), hist[1] + hist[2])
  /\ writes = {}
  /\ request = noRequest
  /\ call = noCall
  /\ reply = replyOf("none", undefinedValue, "")
  /\ exchanges = 0
  /\ startup = cleanStartup
  /\ direct = noDirect
  /\ inflight = noneInFlight

\* ------------------------------------------------------------------------
\* Actions
\* ------------------------------------------------------------------------

\* the handler's effect on the state
Handled(h) ==
  /\ learningData' = h.guard.learningData
  /\ adaptationRules' = h.guard.adaptationRules
  /\ qualityMetrics' = h.guard.qualityMetrics
  /\ writes' = writes \cup {h.saves[i] : i \in 1..Len(h.saves)}
  /\ call' = h.call
  /\ reply' = h.reply

\* one /chat request, from its arrival to its reply
Chat ==
  /\ exchanges < MaxExchanges
  /\ Cardinality(writes) < MaxPendingWrites
  /\ \E messages \in Requests, upstream \in Upstreams, rnd \in RndDraws :
       /\ Handled(chatHandler(personalityGuard = "loaded", tokenSet, guardState, messages,
                              upstream, rnd, clock + 1))
       /\ request' = [messages |-> messages, upstream |-> upstream]
  /\ clock' = clock + 1
  /\ exchanges' = exchanges + 1
  /\ UNCHANGED <<personalityGuard, tokenSet, file, startup, direct, inflight>>

\* an outstanding fs.writeFile completes: the file now holds what that call was given
WriteDone ==
  /\ \E w \in writes :
       /\ file' = <<w>>
       /\ writes' = writes \ {w}
  /\ UNCHANGED <<personalityGuard, tokenSet, learningData, adaptationRules, qualityMetrics,
                 clock, request, call, reply, exchanges, startup, direct, inflight>>

\* a write failure that is not caught in saveLearningData and reaches the caller
WriteFailUncaught ==
  /\ \E w \in writes : writes' = writes \ {w}
  /\ call' = [call EXCEPT !.threw = TRUE]
  /\ UNCHANGED <<personalityGuard, tokenSet, learningData, adaptationRules, qualityMetrics,
                 file, clock, request, reply, exchanges, startup, direct, inflight>>

\* an outstanding fs.writeFile fails: the error is logged, the file is left as it was
WriteFail ==
  /\ \E w \in writes : writes' = writes \ {w}
  /\ UNCHANGED <<personalityGuard, tokenSet, learningData, adaptationRules, qualityMetrics,
                 file, clock, request, call, reply, exchanges, startup, direct, inflight>>

Next == Chat \/ WriteDone \/ WriteFail

Spec == Init /\ [][Next]_vars


\* ------------------------------------------------------------------------
\* The Validator on its own: validateResponse called on the guard directly
\* ------------------------------------------------------------------------

\* base followed by the letter a up to n units (base itself when it is longer)
padded(base, n) == base \o [i \in 1..(n - Len(base)) |-> "a"]

\* how a response starts: with nothing, with an avoid phrase ('as an ai ', 'AS AN AI ',
\* 'x i am gpt '), with a required phrase ('woof '), with a dog emoji, with short words
upperAsAnAI == <<"A","S"," ","A","N"," ","A","I"," ">>

woofWord == <<"w","o","o","f"," ">>

shortWords == <<"a"," ","b"," ","c"," ","d"," ">>

ValidateBases ==
  {<<>>, avoidPhrases[1] \o <<" ">>, upperAsAnAI, <<"x"," ">> \o avoidPhrases[4] \o <<" ">>,
   woofWord, dogEmoji, shortWords}

\* the lengths around the two length limits, and some between
ValidateLengths ==
  {0, qualityThresholds.minLength - 1, qualityThresholds.minLength,
   qualityThresholds.minLength + 1, 50, 200, qualityThresholds.maxLength - 1,
   qualityThresholds.maxLength, qualityThresholds.maxLength + 1}

ValidateInputs == {padded(base, n) : base \in ValidateBases, n \in ValidateLengths}

\* the guard after one more exchange the guard enhances
afterEnhance(g, now) ==
  processChatMessage(g, str(msgWeather), str(rawSunny), [d \in 1..4 |-> 0], now).guard

\* a fresh guard, and the guard that has adapted once (its tenth success came after
\* fourteen failures), each with the time it is reached
ValidateGuards ==
  {<<freshGuard, 0>>,
   <<afterEnhance(history(9, 14), 24), 24>>}

MaxValidations == 1

InitValidate ==
  /\ personalityGuard = "loaded"
  /\ tokenSet = TRUE
  /\ \E gt \in ValidateGuards :
       /\ learningData = gt[1].learningData
       /\ adaptationRules = gt[1].adaptationRules
       /\ qualityMetrics = gt[1].qualityMetrics
       /\ clock = gt[2]
  /\ file = <<>>
  /\ writes = {}
  /\ request = noRequest
  /\ call = noCall
  /\ reply = replyOf("none", undefinedValue, "")
  /\ exchanges = 0
  /\ startup = cleanStartup
  /\ direct = noDirect
  /\ inflight = noneInFlight

\* personalityGuard.validateResponse(response): the guard is left as it is
ValidateResponse ==
  /\ exchanges < MaxValidations
  /\ \E response \in ValidateInputs :
       call' = [noCall EXCEPT
                  !.aiResponse = str(response),
                  !.steps = <<"validateResponse">>,
                  !.responseValidation = <<validateResponse(response, qualityMetrics)>>]
  /\ exchanges' = exchanges + 1
  /\ UNCHANGED <<personalityGuard, tokenSet, learningData, adaptationRules, qualityMetrics,
                 file, writes, clock, request, reply, startup, direct, inflight>>

NextValidate == ValidateResponse

SpecValidate == InitValidate /\ [][NextValidate]_vars

\* ------------------------------------------------------------------------
\* The adaptation check called on its own: adaptPersonality() is a public method of
\* the guard, and here it is applied to the guard a history of exchanges has left
\* ------------------------------------------------------------------------

MaxAdaptations == 2

\* successes, then failures: with and without enough entries (20), and with the
\* failure rate below the adaptation threshold, between 0.3 and 0.4, and above 0.4
AdaptHistories == {<<s, f>> : s \in {0, 10, 19, 20, 60}, f \in {0, 1, 9, 14, 30}}

InitAdapt ==
  /\ personalityGuard = "loaded"
  /\ tokenSet = TRUE
  /\ \E hist \in AdaptHistories :
       InitAfter(history(hist[1], hist[2]), hist[1] + hist[2])
  /\ writes = {}
  /\ request = noRequest
  /\ call = noCall
  /\ reply = replyOf("none", undefinedValue, "")
  /\ exchanges = 0
  /\ startup = cleanStartup
  /\ direct = noDirect
  /\ inflight = noneInFlight

\* the effect of one adaptPersonality() on the state
Adapted(a) ==
  /\ learningData' = a.guard.learningData
  /\ adaptationRules' = a.guard.adaptationRules
  /\ qualityMetrics' = a.guard.qualityMetrics
  /\ writes' = writes \cup {a.saves[i] : i \in 1..Len(a.saves)}

\* personalityGuard.adaptPersonality()
AdaptPersonality ==
  /\ exchanges < MaxAdaptations
  /\ Adapted(adaptPersonality(guardState, clock + 1))
  /\ call' = [noCall EXCEPT !.steps = <<"adaptPersonality">>]
  /\ clock' = clock + 1
  /\ exchanges' = exchanges + 1
  /\ UNCHANGED <<personalityGuard, tokenSet, file, request, reply, startup, direct, inflight>>

NextAdapt == AdaptPersonality \/ WriteDone \/ WriteFail

SpecAdapt == InitAdapt /\ [][NextAdapt]_vars

\* ------------------------------------------------------------------------
\* The guard used by a script (test-personality.js): the process starts, the
\* constructor loads the snapshot file, and processChatMessage is called on the guard
\* ------------------------------------------------------------------------

\* the repair branch on a guard whose successfulResponses is null: the entry is pushed
\* onto failedResponses, then `this.learningData.successfulResponses.length` throws
\* inside updateLearningData, before the eviction and the save
repairedWithoutSuccesses(g, aiResponse, response, userAnalysis, responseValidation, now) ==
  returned([guard |-> [g EXCEPT !.learningData =
                         pushEntry(@, learningEntry(aiResponse, response, "fix_or_fallback",
                                                    "personality_inconsistent", now))],
            saves |-> <<>>],
           response, "fix_or_fallback", "personality_inconsistent", "attemptResponseFix",
           userAnalysis, responseValidation)

\* The decision tree on a guard whose successfulResponses is null. A TypeError inside
\* the async updateLearningData rejects a promise nothing awaits and the call goes on;
\* the one at `successfulResponses.length % 10` is thrown to the caller.
decisionTreeWithoutSuccesses(g, userMessage, aiResponse, userAnalysis, responseValidation, rnd, now) ==
  IF userAnalysis.shouldRedirect
    THEN \* successfulResponses.push throws: nothing is recorded, nothing saved
         returned([guard |-> g, saves |-> <<>>],
                  generateFallbackResponse(userMessage, "redirect", rnd[1]),
                  "redirect", userAnalysis.redirectReason, "generateFallbackResponse",
                  userAnalysis, responseValidation)
  ELSE IF ~responseValidation.isValid
    THEN repairedWithoutSuccesses(
           g, aiResponse,
           attemptResponseFix(aiResponse, userMessage, g.qualityMetrics, rnd[1], rnd[2]),
           userAnalysis, responseValidation, now)
  ELSE outcome(TRUE, noResult, g, <<>>,
               <<"processUserMessage", "validateResponse", "enhancedEnhanceResponse",
                 "updateLearningData">>,
               <<userAnalysis>>, <<responseValidation>>)

processChatMessageWithoutSuccesses(g, userMessage, aiResponse, rnd, now) ==
  IF ~isString(userMessage) \/ ~isString(aiResponse)
    THEN processChatMessage(g, userMessage, aiResponse, rnd, now)
    ELSE decisionTreeWithoutSuccesses(g, userMessage.text, aiResponse.text,
                                      processUserMessage(userMessage.text),
                                      validateResponse(aiResponse.text, g.qualityMetrics),
                                      rnd, now)

MaxDirectCalls == 1

MaxRestarts == 1

\* a text that was not written by saveLearningData
otherText(learningDataProperty, adaptationRulesProperty) ==
  fileText(TRUE, <<[timestamp |-> 0,
                    learningData |-> learningDataProperty,
                    adaptationRules |-> adaptationRulesProperty,
                    metadata |-> dataToSave(freshGuard, 0).metadata]>>)

\* The texts the file may hold when the process starts: snapshots the guard wrote (before
\* and after an adaptation), a file that cannot be read, a text that is no JSON, the
\* empty object, a document with the successes only, one whose successes log is longer
\* than the cap, and one whose successfulResponses is null
StartupTexts ==
  {saveLearningData(history(9, 14), 23),
   saveLearningData(afterEnhance(history(9, 14), 24), 24),
   fileText(FALSE, <<>>),
   fileText(TRUE, <<>>),
   otherText(<<>>, <<>>),
   otherText(<<[successfulResponses |->
                  <<jsArray(history(9, 14).learningData.successfulResponses)>>,
                failedResponses |-> <<>>,
                userRedirectPatterns |-> <<>>,
                lastAdapted |-> <<>>]>>, <<>>),
   saveLearningData(history(logCap + 1, 0), logCap + 1),
   otherText(<<[successfulResponses |-> <<jsNull>>,
                failedResponses |-> << <<>> >>,
                userRedirectPatterns |-> <<>>,
                lastAdapted |-> <<>>]>>, <<>>)}

\* the guard a load has left, restarts counted
StartedWith(l, restarts) ==
  /\ learningData = l.guard.learningData
  /\ adaptationRules = l.guard.adaptationRules
  /\ qualityMetrics = l.guard.qualityMetrics
  /\ startup = [successesArray |-> l.successesArray, restarts |-> restarts,
                load |-> loadCompleted]

\* new PersonalityGuard(), its load completed; the clock is later than every
\* timestamp of the texts
InitStartup ==
  /\ personalityGuard = "loaded"
  /\ tokenSet = TRUE
  /\ file \in {<<>>} \cup {<<t>> : t \in StartupTexts}
  /\ StartedWith(loadLearningData(freshGuard, file), 0)
  /\ writes = {}
  /\ clock = logCap + 1
  /\ request = noRequest
  /\ call = noCall
  /\ reply = replyOf("none", undefinedValue, "")
  /\ exchanges = 0
  /\ direct = noDirect
  /\ inflight = noneInFlight

\* the effect of one direct call on the state
Called(o, userMessage, aiResponse) ==
  /\ learningData' = o.guard.learningData
  /\ adaptationRules' = o.guard.adaptationRules
  /\ qualityMetrics' = o.guard.qualityMetrics
  /\ writes' = writes \cup {o.saves[i] : i \in 1..Len(o.saves)}
  /\ call' = [made |-> TRUE, userMessage |-> userMessage, aiResponse |-> aiResponse,
              threw |-> o.threw, result |-> o.result, steps |-> o.steps,
              userAnalysis |-> o.userAnalysis, responseValidation |-> o.responseValidation]

\* personalityGuard.processChatMessage(userMessage, aiResponse), called by a script
DirectCall ==
  /\ exchanges < MaxDirectCalls
  /\ \E userMessage \in UserContents, aiResponse \in RawResponses, rnd \in RndDraws :
       Called(IF startup.successesArray
                THEN processChatMessage(guardState, userMessage, aiResponse, rnd, clock + 1)
                ELSE processChatMessageWithoutSuccesses(guardState, userMessage, aiResponse,
                                                        rnd, clock + 1),
              userMessage, aiResponse)
  /\ clock' = clock + 1
  /\ exchanges' = exchanges + 1
  /\ UNCHANGED <<personalityGuard, tokenSet, file, request, reply, startup, direct, inflight>>

\* the guard a restart's load leaves
RestartedWith(l) ==
  /\ learningData' = l.guard.learningData
  /\ adaptationRules' = l.guard.adaptationRules
  /\ qualityMetrics' = l.guard.qualityMetrics
  /\ startup' = [successesArray |-> l.successesArray, restarts |-> startup.restarts + 1,
                 load |-> loadCompleted]

\* The process ends and is started again: a new guard is constructed and loads what the
\* file holds; the writes the old process had outstanding are lost with it.
Restart ==
  /\ startup.restarts < MaxRestarts
  /\ RestartedWith(loadLearningData(freshGuard, file))
  /\ writes' = {}
  /\ call' = noCall
  /\ UNCHANGED <<personalityGuard, tokenSet, file, clock, request, reply, exchanges, direct,
                 inflight>>

NextStartup == DirectCall \/ WriteDone \/ WriteFail \/ Restart

SpecStartup == InitStartup /\ [][NextStartup]_vars

\* ------------------------------------------------------------------------
\* The Threat Detector on its own: processUserMessage called on the guard directly
\* ------------------------------------------------------------------------

\* the text with its lower-case letters turned to upper case
upperCased(s) ==
  [i \in 1..Len(s) |->
     IF \E u \in DOMAIN UpperToLower : UpperToLower[u] = s[i]
       THEN CHOOSE u \in DOMAIN UpperToLower : UpperToLower[u] = s[i]
       ELSE s[i]]

\* what a message may hold where an override phrase would stand: nothing, each
\* configured phrase as written and in upper case, and two phrases cut short
\* ('act lik', 'you are')
ThreatParts ==
  {<<>>, <<"a","c","t"," ","l","i","k">>, <<"y","o","u"," ","a","r","e">>}
    \cup {overrideAttempts[i] : i \in 1..Len(overrideAttempts)}
    \cup {upperCased(overrideAttempts[i]) : i \in 1..Len(overrideAttempts)}

\* what it may hold where a topic would stand: nothing, each configured key as written
\* and in upper case, a word that holds a key inside ('rain'), and two keys in the
\* order opposite to the configured one ('robot cat', 'machine ai')
TopicParts ==
  {<<>>, <<"r","a","i","n">>,
   <<"r","o","b","o","t"," ","c","a","t">>,
   <<"m","a","c","h","i","n","e"," ","a","i">>}
    \cup {redirectTopicKeys[i] : i \in 1..Len(redirectTopicKeys)}
    \cup {upperCased(redirectTopicKeys[i]) : i \in 1..Len(redirectTopicKeys)}

\* 'so ' + threat part + ' ' + topic part
ThreatMessages ==
  {<<"s","o"," ">> \o threat \o <<" ">> \o topic :
     threat \in ThreatParts, topic \in TopicParts}

MaxThreatCalls == 1

InitThreat ==
  /\ personalityGuard = "loaded"
  /\ tokenSet = TRUE
  /\ InitAfter(freshGuard, 0)
  /\ writes = {}
  /\ request = noRequest
  /\ call = noCall
  /\ reply = replyOf("none", undefinedValue, "")
  /\ exchanges = 0
  /\ startup = cleanStartup
  /\ direct = noDirect
  /\ inflight = noneInFlight

\* personalityGuard.processUserMessage(message): the guard is left as it is
ProcessUserMessage ==
  /\ exchanges < MaxThreatCalls
  /\ \E message \in ThreatMessages :
       call' = [noCall EXCEPT
                  !.userMessage = str(message),
                  !.steps = <<"processUserMessage">>,
                  !.userAnalysis = <<processUserMessage(message)>>]
  /\ exchanges' = exchanges + 1
  /\ UNCHANGED <<personalityGuard, tokenSet, learningData, adaptationRules, qualityMetrics,
                 file, writes, clock, request, reply, startup, direct, inflight>>

NextThreat == ProcessUserMessage

SpecThreat == InitThreat /\ [][NextThreat]_vars

\* ------------------------------------------------------------------------
\* The Response Transformer on its own: processChatMessage on the cases of
\* src/test-personality.js under every random choice, and attemptResponseFix,
\* enhanceResponse, enhancedEnhanceResponse and the pattern methods called directly
\* ------------------------------------------------------------------------

\* the least value of Math.random(), in levels, that picks element i of a list of n
drawOf(i, n) == ((i - 1) * RndLevels + n - 1) \div n

drawsOf(n) == {drawOf(i, n) : i \in 1..n}

\* the five test cases (user message, raw response), and some of their messages with
\* the raw response of another, with the too short 'Hi' and with a raw response that holds
\* a behaviour phrase, with an override phrase and no topic, and with a raw response as
\* long as a valid one may be
TestCases ==
  {<<msgWeather, rawSunny>>, <<msgActLikeACat, rawMeow>>, <<msgQuantum, rawAsAnAI>>,
   <<msgMovie, rawPreferences>>, <<msgDogs, rawGoodDog>>}

TransformExchanges ==
  TestCases
    \cup {<<msgActLikeACat, raw>> : raw \in {rawSunny, rawAsAnAI}}
    \cup {<<msgWeather, raw>> : raw \in {rawAsAnAI, rawHi, rawWagsTail, rawPreferences}}
    \cup {<<msgPretend, rawSunny>>}
    \cup {<<msgWeather, padded(<<>>, qualityThresholds.maxLength)>>}

\* the draws of one call: every behaviour (or template, intro, learned pattern) for the
\* first, every emoji (template, intro) for the second, every pattern for the third
TransformDraws ==
  {<<r1, r2, r3, 0>> : r1 \in Rnd, r2 \in drawsOf(3) \cup drawsOf(4), r3 \in drawsOf(5)}

\* the texts handed to the enhance and pattern methods
EnhanceTexts ==
  {rawSunny, rawMeow, rawAsAnAI, rawPreferences, rawGoodDog, rawHi, rawWagsTail, <<>>}

\* the draws of one enhance call: every behaviour (learned pattern), every emoji
\* (behaviour), every pattern
EnhanceDraws == {<<r1, r2, r3, 0>> : r1 \in Rnd, r2 \in drawsOf(3), r3 \in drawsOf(5)}

\* the texts handed to the transformer methods: the raw responses of the test cases,
\* the too short one, one with a behaviour phrase, and texts so long that a prefix may
\* take them over maxLength
TransformTexts ==
  EnhanceTexts
    \cup {padded(<<>>, qualityThresholds.maxLength - 15),
          padded(<<>>, qualityThresholds.maxLength)}

\* the draws tried on an exchange: all of them, and for the raw response of maxLength
\* units every pattern with the first behaviour and the first emoji
drawsFor(x) ==
  IF Len(x[2]) = qualityThresholds.maxLength
    THEN {<<0, 0, r3, 0>> : r3 \in drawsOf(5)}
    ELSE TransformDraws

MaxTransformCalls == 1

\* a fresh guard or one that has adapted once, as for the validator
InitTransform == InitValidate

\* personalityGuard.processChatMessage(userMessage, aiResponse), called by the test
ProcessChatMessageCall ==
  /\ exchanges < MaxTransformCalls
  /\ \E x \in TransformExchanges :
       \E rnd \in drawsFor(x) :
       Called(processChatMessage(guardState, str(x[1]), str(x[2]), rnd, clock + 1),
              str(x[1]), str(x[2]))
  /\ clock' = clock + 1
  /\ exchanges' = exchanges + 1
  /\ UNCHANGED <<personalityGuard, tokenSet, file, request, reply, startup, direct, inflight>>

\* the record of a direct call
directCall(method, original, rnd, value, classified) ==
  [method |-> method, original |-> original, rnd |-> rnd, returned |-> value,
   classified |-> classified]

\* what a direct call of a transformer method leaves as it was: the guard and the rest
DirectFrame ==
  /\ exchanges' = exchanges + 1
  /\ UNCHANGED <<personalityGuard, tokenSet, learningData, adaptationRules, qualityMetrics,
                 file, writes, clock, request, call, reply, startup, inflight>>

\* personalityGuard.attemptResponseFix(response, userMessage)
AttemptResponseFixCall ==
  /\ exchanges < MaxTransformCalls
  /\ \E response \in TransformTexts, rIntro \in drawsOf(4), rTemplate \in drawsOf(4) :
       direct' = directCall("attemptResponseFix", response, <<rIntro, rTemplate>>,
                            attemptResponseFix(response, msgWeather, qualityMetrics,
                                               rIntro, rTemplate),
                            "none")
  /\ DirectFrame

\* personalityGuard.enhanceResponse(response)
EnhanceResponseCall ==
  /\ exchanges < MaxTransformCalls
  /\ \E response \in EnhanceTexts, rnd \in EnhanceDraws :
       direct' = directCall("enhanceResponse", response, rnd,
                            enhanceResponse(response, rnd[1], rnd[2], rnd[3]), "none")
  /\ DirectFrame

\* personalityGuard.enhancedEnhanceResponse(response)
EnhancedEnhanceResponseCall ==
  /\ exchanges < MaxTransformCalls
  /\ \E response \in EnhanceTexts, rnd \in EnhanceDraws :
       direct' = directCall("enhancedEnhanceResponse", response, rnd,
                            enhancedEnhanceResponse(adaptationRules, response, rnd),
                            "none")
  /\ DirectFrame

\* the four pattern methods of the switch in enhancedEnhanceResponse, by pattern name
applyPattern(pattern, rules, response, rBehavior, rEmoji) ==
  CASE pattern = "behavior_and_emoji" -> applyBehaviorAndEmoji(rules, response, rBehavior, rEmoji)
    [] pattern = "behavior_only" -> applyBehaviorOnly(rules, response, rBehavior)
    [] pattern = "emoji_only" -> applyEmojiOnly(response, rEmoji)
    [] pattern = "prefix_emoji" -> applyPrefixEmoji(response, rEmoji)

learnedPatternNames == {"behavior_and_emoji", "behavior_only", "emoji_only", "prefix_emoji"}

\* the classification of a pair whose second text a pattern method made of the first
classifiedAs(pattern, response, rnd, applied) ==
  directCall(pattern, response, rnd, applied, analyzeEnhancementPattern(response, applied))

\* a pattern method applied to a response, then
\* personalityGuard.analyzeEnhancementPattern(response, applied)
AnalyzeEnhancementPatternCall ==
  /\ exchanges < MaxTransformCalls
  /\ \E response \in EnhanceTexts, pattern \in learnedPatternNames,
        rBehavior \in Rnd, rEmoji \in drawsOf(3) :
       direct' = classifiedAs(pattern, response, <<rBehavior, rEmoji>>,
                              applyPattern(pattern, adaptationRules, response,
                                           rBehavior, rEmoji))
  /\ DirectFrame

NextTransform ==
  \/ ProcessChatMessageCall
  \/ AttemptResponseFixCall
  \/ EnhanceResponseCall
  \/ EnhancedEnhanceResponseCall
  \/ AnalyzeEnhancementPatternCall

SpecTransform == InitTransform /\ [][NextTransform]_vars

\* ------------------------------------------------------------------------
\* Several /chat requests in flight on the one guard. The handler is an async
\* function: it is left at each await (the completion request, response.json())
\* and goes on in a later callback; a callback, once started, runs until the
\* handler's next await or its reply before any other callback starts. The guard
\* call made after response.json() is taken one mutation at a time.
\* ------------------------------------------------------------------------

\* A variant in which processChatMessage awaits updateLearningData before it makes the
\* adaptation check: the callback is left after the append as well
runningAfterAwaitedUpdate(r, stage) ==
  IF stage \in {"fetching", "parsing", "check", "done"} THEN 0 ELSE r

\* the request whose callback goes on running (0 when none does) once request r has
\* come to the stage: the handler awaits the completion request ("fetching") and
\* response.json() ("parsing") and ends with its reply ("done"); processChatMessage,
\* called in between, is synchronous and awaits nothing
runningAfter(r, stage) ==
  IF stage \in {"fetching", "parsing", "done"} THEN 0 ELSE r

\* a callback of request r may run: none is running, or its own is
mayStep(r) == inflight.running \in {0, r}

\* the requests in flight once request r has taken a step that leaves it as job and
\* has made the mutations of the guard listed
stepped(r, job, made) ==
  [running |-> runningAfter(r, job.stage),
   mutations |-> inflight.mutations \o made,
   jobs |-> [inflight.jobs EXCEPT ![r] = job]]

mutation(r, step) == [request |-> r, step |-> step]

\* the raw responses the completion request answers with: one the guard enhances, one
\* it repairs
ConcurrentRawResponses == {rawSunny, rawAsAnAI}

\* a guard whose next success is its tenth, after fourteen failures, or a fresh one
InitConcurrent ==
  /\ personalityGuard = "loaded"
  /\ tokenSet = TRUE
  /\ \E hist \in {<<9, 14>>, <<0, 0>>} :
       InitAfter(history(hist[1], hist[2]), hist[1] + hist[2])
  /\ writes = {}
  /\ request = noRequest
  /\ call = noCall
  /\ reply = replyOf("none", undefinedValue, "")
  /\ exchanges = 0
  /\ startup = cleanStartup
  /\ direct = noDirect
  /\ inflight = noneInFlight

\* a /chat request arrives: the handler runs up to its await of the completion request
Arrive ==
  /\ \E r \in 1..MaxInFlight :
       /\ inflight.jobs[r].stage = "none"
       /\ mayStep(r)
       /\ inflight' = stepped(r, [noJob EXCEPT !.stage = "fetching",
                                               !.userMessage = str(msgWeather)], <<>>)
  /\ exchanges' = exchanges + 1
  /\ UNCHANGED <<personalityGuard, tokenSet, learningData, adaptationRules, qualityMetrics,
                 file, writes, clock, request, call, reply, startup, direct>>

\* the completion request answers (ok): the handler goes on to await response.json()
FetchDone ==
  /\ \E r \in 1..MaxInFlight :
       /\ inflight.jobs[r].stage = "fetching"
       /\ mayStep(r)
       /\ inflight' = stepped(r, [inflight.jobs[r] EXCEPT !.stage = "parsing"], <<>>)
  /\ UNCHANGED <<personalityGuard, tokenSet, learningData, adaptationRules, qualityMetrics,
                 file, writes, clock, request, call, reply, exchanges, startup, direct>>

\* the job of request r from the call of processChatMessage on: the arguments, the time,
\* and what the call as a whole would do to the guard as it is now
started(job, aiResponse, rnd, now) ==
  [job EXCEPT !.stage = "append", !.aiResponse = str(aiResponse), !.rnd = rnd, !.now = now,
              !.decision = <<processChatMessage(guardState, job.userMessage, str(aiResponse),
                                                rnd, now)>>]

\* response.json() resolves: the handler calls processChatMessage, which analyses the
\* message, validates the raw response and computes the final response
StartGuardCall ==
  /\ \E r \in 1..MaxInFlight, aiResponse \in ConcurrentRawResponses :
       /\ inflight.jobs[r].stage = "parsing"
       /\ mayStep(r)
       /\ inflight' = stepped(r, started(inflight.jobs[r], aiResponse, [d \in 1..4 |-> 0],
                                         clock + 1), <<>>)
  /\ clock' = clock + 1
  /\ UNCHANGED <<personalityGuard, tokenSet, learningData, adaptationRules, qualityMetrics,
                 file, writes, request, call, reply, exchanges, startup, direct>>

\* the effect of a guard method on the guard and on the writes outstanding
Mutated(m) ==
  /\ learningData' = m.guard.learningData
  /\ adaptationRules' = m.guard.adaptationRules
  /\ qualityMetrics' = m.guard.qualityMetrics
  /\ writes' = writes \cup {m.saves[i] : i \in 1..Len(m.saves)}

\* what updateLearningData does with the decision of the job
appended(job, result) ==
  updateLearningData(guardState, job.aiResponse.text, result.response, result.action,
                     result.reason, job.now)

\* this.updateLearningData(aiResponse, response, action, reason), up to its await: the
\* entry is pushed, the oldest shifted out, the save started
AppendEntry ==
  /\ \E r \in 1..MaxInFlight :
       /\ inflight.jobs[r].stage = "append"
       /\ mayStep(r)
       /\ Mutated(appended(inflight.jobs[r], inflight.jobs[r].decision[1].result))
       /\ inflight' =
            stepped(r, [inflight.jobs[r] EXCEPT
                          !.stage = IF inflight.jobs[r].decision[1].result.action = "enhance"
                                      THEN "check" ELSE "reply"],
                    <<mutation(r, "updateLearningData")>>)
  /\ UNCHANGED <<personalityGuard, tokenSet, file, clock, request, call, reply, exchanges,
                 startup, direct>>

\* the enhance branch's check of successfulResponses.length % 10, and adaptPersonality
\* when it is 0
CheckAdaptation ==
  /\ \E r \in 1..MaxInFlight :
       /\ inflight.jobs[r].stage = "check"
       /\ mayStep(r)
       /\ IF Len(learningData.successfulResponses) % 10 = 0
            THEN /\ Mutated(adaptPersonality(guardState, inflight.jobs[r].now))
                 /\ inflight' = stepped(r, [inflight.jobs[r] EXCEPT !.stage = "reply"],
                                        <<mutation(r, "adaptPersonality")>>)
            ELSE /\ inflight' = stepped(r, [inflight.jobs[r] EXCEPT !.stage = "reply"], <<>>)
                 /\ UNCHANGED <<learningData, adaptationRules, qualityMetrics, writes>>
  /\ UNCHANGED <<personalityGuard, tokenSet, file, clock, request, call, reply, exchanges,
                 startup, direct>>

\* what the handler does with the decision returned
replied(job) ==
  guardInvocation(job.decision[1], job.userMessage, job.aiResponse)

\* processChatMessage returns and the handler replies with the final response
Reply ==
  /\ \E r \in 1..MaxInFlight :
       /\ inflight.jobs[r].stage = "reply"
       /\ mayStep(r)
       /\ inflight' = stepped(r, [inflight.jobs[r] EXCEPT !.stage = "done",
                                                          !.after = <<guardState>>], <<>>)
       /\ call' = replied(inflight.jobs[r]).call
       /\ reply' = replied(inflight.jobs[r]).reply
       /\ request' = [messages |-> <<userTurn(inflight.jobs[r].userMessage)>>,
                      upstream |-> [kind |-> "ok", content |-> inflight.jobs[r].aiResponse]]
  /\ UNCHANGED <<personalityGuard, tokenSet, learningData, adaptationRules, qualityMetrics,
                 file, writes, clock, exchanges, startup, direct>>

NextConcurrent ==
  \/ Arrive
  \/ FetchDone
  \/ StartGuardCall
  \/ AppendEntry
  \/ CheckAdaptation
  \/ Reply
  \/ WriteDone
  \/ WriteFail

SpecConcurrent == InitConcurrent /\ [][NextConcurrent]_vars

\* ------------------------------------------------------------------------
\* The constructor's load taken in its steps: the constructor calls the async
\* loadLearningData and returns; fs.readFile reads the file later, and the rest of
\* loadLearningData (JSON.parse, the two merges) runs in a callback later still.
\* Calls of processChatMessage may be made in between: test-personality.js makes its
\* calls right after require('./personality-guard'), before any callback can run.
\* ------------------------------------------------------------------------

\* the texts the file may hold when the process starts: a snapshot the guard wrote, a
\* text that is no JSON, and the empty object
LoadTexts ==
  {saveLearningData(history(9, 14), 23), fileText(TRUE, <<>>), otherText(<<>>, <<>>)}

\* new PersonalityGuard(): the guard as the constructor leaves it, the read started
InitLoad ==
  /\ personalityGuard = "loaded"
  /\ tokenSet = TRUE
  /\ learningData = freshGuard.learningData
  /\ adaptationRules = freshGuard.adaptationRules
  /\ qualityMetrics = freshGuard.qualityMetrics
  /\ file \in {<<>>} \cup {<<t>> : t \in LoadTexts}
  /\ writes = {}
  /\ clock = logCap + 1
  /\ request = noRequest
  /\ call = noCall
  /\ reply = replyOf("none", undefinedValue, "")
  /\ exchanges = 0
  /\ startup = [successesArray |-> TRUE, restarts |-> 0,
                load |-> [stage |-> "reading", read |-> <<>>]]
  /\ direct = noDirect
  /\ inflight = noneInFlight

\* fs.readFile(this.learningDataFile, 'utf8') reads what the file holds at that time
ReadFile ==
  /\ startup.load.stage = "reading"
  /\ startup' = [startup EXCEPT !.load = [stage |-> "read", read |-> <<file>>]]
  /\ UNCHANGED <<personalityGuard, tokenSet, learningData, adaptationRules, qualityMetrics,
                 file, writes, clock, request, call, reply, exchanges, direct, inflight>>

\* the guard the rest of loadLearningData leaves, the load completed
LoadedWith(l) ==
  /\ learningData' = l.guard.learningData
  /\ adaptationRules' = l.guard.adaptationRules
  /\ qualityMetrics' = l.guard.qualityMetrics
  /\ startup' = [startup EXCEPT !.successesArray = l.successesArray,
                                !.load = loadCompleted]

\* the await of fs.readFile resumes: the text read is parsed and merged into the guard
\* as it is now
LoadCompletes ==
  /\ startup.load.stage = "read"
  /\ LoadedWith(loadLearningData(guardState, startup.load.read[1]))
  /\ UNCHANGED <<personalityGuard, tokenSet, file, writes, clock, request, call, reply,
                 exchanges, direct, inflight>>

NextLoad == ReadFile \/ LoadCompletes \/ DirectCall \/ WriteDone \/ WriteFail

SpecLoad == InitLoad /\ [][NextLoad]_vars

\* ------------------------------------------------------------------------
\* The exchanges and their snapshot writes when every write succeeds: the writes
\* started are outstanding together and complete in any order
\* ------------------------------------------------------------------------

NextWrites == Chat \/ WriteDone

SpecWrites == Init /\ [][NextWrites]_vars

\* ------------------------------------------------------------------------
\* Properties
\* ------------------------------------------------------------------------

\* the last exchange reached the guard, which returned a decision
decided == call.made /\ ~call.threw

\* whether the lower-cased text holds one of the phrases of the list
holdsPhraseOf(list, text) ==
  \E i \in 1..Len(list) : includes(toLowerCase(text), toLowerCase(list[i]))

\* C1: on every exchange the threat detector does not redirect, the decision is
\* fix_or_fallback / personality_inconsistent exactly when the validator found the raw
\* response invalid and enhance / personality_good exactly when it found it valid; no
\* other action or reason is returned there.
C1_DecisionFollowsVerdict ==
  (decided /\ ~call.userAnalysis[1].shouldRedirect) =>
     \/ /\ ~call.responseValidation[1].isValid
        /\ call.result.action = "fix_or_fallback"
        /\ call.result.reason = "personality_inconsistent"
     \/ /\ call.responseValidation[1].isValid
        /\ call.result.action = "enhance"
        /\ call.result.reason = "personality_good"

C1_Witness ==
  /\ decided
  /\ ~call.userAnalysis[1].shouldRedirect
  /\ ~call.responseValidation[1].isValid
  /\ call.result.action = "fix_or_fallback"

\* C2: a user message that holds a configured override phrase is answered by a redirect,
\* never by enhance or fix_or_fallback, whatever the raw response is, a valid one
\* included.
C2_ThreatPriority ==
  (call.made /\ isString(call.userMessage)
     /\ holdsPhraseOf(overrideAttempts, call.userMessage.text)) =>
     /\ ~call.threw
     /\ call.result.action = "redirect"

C2_Witness ==
  /\ decided
  /\ holdsPhraseOf(overrideAttempts, call.userMessage.text)
  /\ call.responseValidation[1].isValid
  /\ call.result.action = "redirect"

ran(step) == \E i \in 1..Len(call.steps) : call.steps[i] = step

\* C4 (as stated): when the threat detector reports shouldRedirect, the redirect decision
\* is produced without any validation step on the raw response.
C4_RedirectSkipsValidation ==
  (decided /\ call.userAnalysis[1].shouldRedirect) => ~ran("validateResponse")

\* C4 (amended): when the threat detector reports shouldRedirect, the validator has
\* already run on the raw response, as the second step of the exchange, and its verdict
\* is not consulted: the decision is the redirect whether the verdict is valid or not.
C4_RedirectIgnoresVerdict ==
  (decided /\ call.userAnalysis[1].shouldRedirect) =>
     /\ call.result.action = "redirect"
     /\ call.result.reason = call.userAnalysis[1].redirectReason
     /\ call.responseValidation # <<>>
     /\ call.steps = <<"processUserMessage", "validateResponse",
                       "generateFallbackResponse", "updateLearningData">>

C4_Witness ==
  /\ decided
  /\ call.userAnalysis[1].shouldRedirect
  /\ ~call.responseValidation[1].isValid
  /\ call.result.action = "redirect"
  /\ ran("validateResponse")

\* C5 (as stated): no exception raised by a step of an exchange reaches the caller of
\* processChatMessage.
C5_NoExceptionReachesCaller == call.made => ~call.threw

\* C5 (amended): processChatMessage catches nothing, so an exception of one of its steps
\* reaches its caller; the /chat handler catches it there, and the exchange ends with
\* the unmodified raw response as the reply.
C5_HandlerFailsOpen ==
  (call.made /\ call.threw) =>
     /\ reply.kind = "data"
     /\ reply.content = call.aiResponse
     /\ reply.content = request.upstream.content

C5_Witness ==
  /\ call.made
  /\ call.threw
  /\ reply.kind = "data"
  /\ reply.content = request.upstream.content

\* C6 (as stated): when the guard failed to load (personalityGuard is null), every /chat
\* request whose upstream call succeeds ends with the model's raw reply, whatever the
\* roles of the incoming messages are.
C6_NullGuardStillReplies ==
  (/\ personalityGuard = "null"
   /\ tokenSet
   /\ request.upstream.kind = "ok"
   /\ isString(request.upstream.content)) =>
     /\ reply.kind = "data"
     /\ reply.content = request.upstream.content

\* the two logs
successfulResponses == learningData.successfulResponses

failedResponses == learningData.failedResponses

\* the step appends to the log the entry of the exchange it handles and keeps the newest
\* logCap entries, in their order
recorded(old, new) ==
  /\ new # <<>>
  /\ new[Len(new)].timestamp = clock'
  /\ new = lastN(Append(old, new[Len(new)]), logCap)

\* C7: each of the two logs holds at most N = 100 entries, and an append past N keeps
\* exactly the N most recently appended entries in their order of arrival: the oldest
\* is the one evicted.
C7_RingBuffer ==
  /\ [](Len(successfulResponses) <= logCap /\ Len(failedResponses) <= logCap)
  /\ [][IF exchanges' # exchanges /\ call'.made /\ ~call'.threw
          THEN \/ /\ recorded(successfulResponses, learningData'.successfulResponses)
                  /\ learningData'.failedResponses = failedResponses
               \/ /\ recorded(failedResponses, learningData'.failedResponses)
                  /\ learningData'.successfulResponses = successfulResponses
          ELSE /\ learningData'.successfulResponses = successfulResponses
               /\ learningData'.failedResponses = failedResponses]_vars

\* the successes log is full, its oldest entry evicted by the exchange just recorded
C7_Witness ==
  /\ decided
  /\ Len(successfulResponses) = logCap
  /\ successfulResponses[1].timestamp = 2
  /\ successfulResponses[logCap].timestamp = clock

\* the entries of the two logs recorded at time t
entriesAt(t) ==
  Cardinality({i \in 1..Len(successfulResponses) : successfulResponses[i].timestamp = t})
  + Cardinality({i \in 1..Len(failedResponses) : failedResponses[i].timestamp = t})

\* C8: a call of processChatMessage that returns a decision appends exactly one entry to
\* exactly one of the two logs, on the redirect, the fix_or_fallback and the enhance
\* path alike.
C8_OneEntryPerDecision == decided => entriesAt(clock) = 1

C8_Witness ==
  /\ decided
  /\ call.result.action = "redirect"
  /\ entriesAt(clock) = 1
  /\ successfulResponses[Len(successfulResponses)].timestamp = clock

\* C9: the entry of an exchange has success = FALSE and goes to the failures log exactly
\* when the decision is fix_or_fallback; for redirect and enhance it has success = TRUE
\* and goes to the successes log. So every entry of the successes log has success =
\* TRUE and every entry of the failures log has success = FALSE.
C9_SuccessFlagNamesTheLog ==
  /\ \A i \in 1..Len(successfulResponses) :
       /\ successfulResponses[i].success
       /\ successfulResponses[i].action \in {"redirect", "enhance"}
  /\ \A i \in 1..Len(failedResponses) :
       /\ ~failedResponses[i].success
       /\ failedResponses[i].action = "fix_or_fallback"
  /\ decided =>
       IF call.result.action = "fix_or_fallback"
         THEN /\ failedResponses # <<>>
              /\ failedResponses[Len(failedResponses)].timestamp = clock
         ELSE /\ successfulResponses # <<>>
              /\ successfulResponses[Len(successfulResponses)].timestamp = clock
              /\ successfulResponses[Len(successfulResponses)].action = call.result.action

C9_Witness ==
  /\ decided
  /\ call.result.action = "fix_or_fallback"
  /\ failedResponses[Len(failedResponses)].timestamp = clock
  /\ ~failedResponses[Len(failedResponses)].success

\* C10 (as stated): with the failure rate above the threshold, the thresholds are shrunk
\* once per 10 new successes and never on consecutive exchanges: between one adaptation
\* and the next, at least 10 successes are recorded, also when the successes log is at
\* its cap.
C10_TenSuccessesBetweenAdaptations ==
  [][(/\ learningData.lastAdapted # <<>>
      /\ learningData'.lastAdapted # learningData.lastAdapted) =>
       Cardinality({i \in 1..Len(learningData'.successfulResponses) :
                      learningData'.successfulResponses[i].timestamp
                        > learningData.lastAdapted[1]}) >= 10]_vars

\* C11 (as stated): a second adaptPersonality() with no entry appended since the first
\* is a no-op: thresholds, learned pattern ranking, learned behaviour ranking and
\* lastAdapted are all unchanged by it.
C11_SecondAdaptationIsNoOp ==
  [][(/\ call.steps = <<"adaptPersonality">>
      /\ call'.steps = <<"adaptPersonality">>
      /\ exchanges' = exchanges + 1) =>
       /\ qualityMetrics' = qualityMetrics
       /\ adaptationRules' = adaptationRules
       /\ learningData' = learningData]_vars

\* C12 (as stated): the adaptation trigger check is made after every successful
\* decision, redirect or enhance, and not after a fix_or_fallback: so whenever such a
\* decision has brought the successes log to a multiple of 10, adaptPersonality has been
\* called, and after a repair it has not.
C12_CheckAfterEverySuccess ==
  decided =>
    /\ (/\ call.result.action \in {"redirect", "enhance"}
        /\ Len(successfulResponses) % 10 = 0) => ran("adaptPersonality")
    /\ call.result.action = "fix_or_fallback" => ~ran("adaptPersonality")

\* the two ratio thresholds each multiplied by n / d
rescaled(qm, n, d) ==
  [qm EXCEPT !.dogWordRatio = ratioTimes(@, n, d), !.emojiRatio = ratioTimes(@, n, d)]

\* C13 (as stated): whenever the adaptation check runs (on 20 entries or more) with a
\* failure rate above 0.4, the two ratio thresholds are each multiplied by 0.8, and
\* whenever it runs with a success rate above 0.9 they are each multiplied by 1.1, so
\* that the thresholds can grow.
C13_ThresholdRescaling ==
  [][(/\ call'.steps = <<"adaptPersonality">>
      /\ exchanges' = exchanges + 1
      /\ Len(successfulResponses) + Len(failedResponses) >= 20) =>
       /\ 10 * Len(failedResponses) > 4 * (Len(successfulResponses) + Len(failedResponses))
            => qualityMetrics' = rescaled(qualityMetrics, 8, 10)
       /\ 10 * Len(successfulResponses) > 9 * (Len(successfulResponses) + Len(failedResponses))
            => qualityMetrics' = rescaled(qualityMetrics, 11, 10)]_vars

\* whether the snapshot file holds the adaptation the guard made last
onDisk(f) ==
  /\ f # <<>>
  /\ f[1].json[1].learningData[1].lastAdapted[1] = learningData.lastAdapted
  /\ f[1].json[1].adaptationRules[1] = adaptationRules

\* C14 (as stated): an adaptation is persisted by the exchange that made it: once the
\* snapshot holding the new lastAdapted and the learned rules is in the file, the
\* completion of the exchange's last outstanding write leaves the file reflecting the
\* adaptation.
C14_AdaptationPersisted ==
  [][(/\ learningData.lastAdapted # <<>>
      /\ onDisk(file)
      /\ writes # {}
      /\ writes' = {}
      /\ file' # file) => onDisk(file')]_vars

\* whether the file holds the snapshot saveLearningData makes of the guard as it is
holdsSnapshotOfGuard ==
  /\ file # <<>>
  /\ file[1].readable
  /\ file[1].json # <<>>
  /\ file = <<saveLearningData(guardState, file[1].json[1].timestamp)>>

\* C15 (as stated): saving the snapshot of a reachable guard state and loading it into a
\* freshly constructed guard reproduces the state: when the process restarts on the
\* snapshot of the guard as it is, the new guard has the same logs and lastAdapted, the
\* same learned rankings and the same learned threshold values.
C15_RoundTrip ==
  [][(/\ startup'.restarts = startup.restarts + 1
      /\ startup.successesArray
      /\ holdsSnapshotOfGuard) =>
       /\ learningData' = learningData
       /\ adaptationRules' = adaptationRules
       /\ qualityMetrics' = qualityMetrics]_vars

\* C16 (as stated): after the startup load of any snapshot each of the two logs holds at
\* most 100 entries, and the bound holds after every later append.
C16_LoadTruncatesToCap ==
  /\ Len(successfulResponses) <= logCap
  /\ Len(failedResponses) <= logCap

\* C17 (as stated): whatever the snapshot file holds, after the load both logs are
\* lists, and no later processChatMessage call on strings fails on them.
C17_LoadLeavesGuardUsable ==
  /\ startup.successesArray
  /\ (call.made /\ isString(call.userMessage) /\ isString(call.aiResponse)) => ~call.threw

\* C18: the decision does not depend on persistence. An exchange the guard decides
\* returns while the snapshot write it started is still outstanding (the file is as it
\* was, the set of outstanding writes has grown); and the end of a write, completed or
\* failed, changes neither the returned decision, nor the reply, nor the in-memory logs,
\* thresholds and learned rules, and raises nothing to the caller.
C18_DecisionIndependentOfPersistence ==
  [][/\ (exchanges' = exchanges + 1 /\ call'.made /\ ~call'.threw) =>
          (file' = file /\ writes \subseteq writes' /\ writes' # writes)
     /\ (exchanges' = exchanges /\ writes' # writes) =>
          /\ call' = call
          /\ reply' = reply
          /\ learningData' = learningData
          /\ adaptationRules' = adaptationRules
          /\ qualityMetrics' = qualityMetrics]_vars

\* the first exchange of a guard that had no snapshot was decided and logged, every
\* write it started has failed (there is still no file), and the decision stands
C18_Witness ==
  /\ decided
  /\ call.result.action = "enhance"
  /\ Len(learningData.successfulResponses) = 1
  /\ writes = {}
  /\ file = <<>>

\* how many entries of the log are later than the time
laterThan(log, time) == Cardinality({i \in 1..Len(log) : log[i].timestamp > time})

\* how many of the successes are among the 20 most recently processed exchanges of
\* either kind: fewer than 20 entries of the two logs are later than them
recentSuccesses(successes, failures) ==
  Cardinality({i \in 1..Len(successes) :
                 laterThan(successes, successes[i].timestamp)
                   + laterThan(failures, successes[i].timestamp) < 20})

\* C19 (as stated): once 20 exchanges have been processed, personalityStrength is the
\* fraction of the 20 most recently processed exchanges, successes and failures
\* together, that were successes.
C19_StrengthOverRecentExchanges ==
  (Len(successfulResponses) + Len(failedResponses) >= 20) =>
     getPersonalityStats(learningData).personalityStrength
       = <<recentSuccesses(successfulResponses, failedResponses), 20>>

\* the position in the configured order of the first redirect-topic key the lower-cased
\* text holds, 0 when it holds none
firstTopicHeld(text) ==
  IF \A i \in 1..Len(redirectTopicKeys) :
       ~includes(toLowerCase(text), toLowerCase(redirectTopicKeys[i]))
    THEN 0
    ELSE CHOOSE i \in 1..Len(redirectTopicKeys) :
           /\ includes(toLowerCase(text), toLowerCase(redirectTopicKeys[i]))
           /\ \A k \in 1..(i - 1) :
                 ~includes(toLowerCase(text), toLowerCase(redirectTopicKeys[k]))

\* the result the detector is to give for a message that holds (or not) an override
\* phrase and whose first topic key has the given position
detectorResult(isThreat, topic) ==
  [isPersonalityThreat |-> isThreat,
   shouldRedirect |-> isThreat \/ topic # 0,
   redirectReason |-> IF isThreat THEN "personality_override"
                      ELSE IF topic # 0 THEN "redirect_topic" ELSE "null",
   redirectTopic |-> IF topic = 0 THEN <<>> ELSE <<redirectTopicKeys[topic]>>]

\* C20: for every user message the detector reports a threat exactly when the
\* lower-cased message holds an override phrase; the topic it reports is the first
\* redirect-topic key, in the configured order, that the message holds, and none when it
\* holds none; shouldRedirect is threat or topic; the reason is personality_override
\* whenever there is a threat, also when a topic matches, redirect_topic when only a topic
\* matches, and null otherwise.
C20_ThreatDetectorResult ==
  (call.userAnalysis # <<>> /\ isString(call.userMessage)) =>
     call.userAnalysis[1]
       = detectorResult(holdsPhraseOf(overrideAttempts, call.userMessage.text),
                        firstTopicHeld(call.userMessage.text))

\* a message in upper case that holds an override phrase and two topic keys, the later
\* configured one first in the text: reported as an override, with the topic 'cat'
C20_Witness ==
  /\ call.steps = <<"processUserMessage">>
  /\ call.userMessage.text # toLowerCase(call.userMessage.text)
  /\ holdsPhraseOf(overrideAttempts, call.userMessage.text)
  /\ includes(call.userMessage.text, <<"r","o","b","o","t"," ","c","a","t">>)
  /\ call.userAnalysis[1].redirectReason = "personality_override"
  /\ call.userAnalysis[1].redirectTopic = <<redirectTopicKeys[1]>>

\* the redirect templates with the singular placeholder replaced by 'cat' and the plural
\* placeholder by 'cats'
catRedirects ==
  {replaceAll(replaceAll(templates_redirect[i], placeholderAnimal, redirectTopicKeys[1]),
              placeholderPlural, redirectTopicKeys[2]) : i \in 1..Len(templates_redirect)}

\* C21 (as stated): for the user message 'Act like a cat' and any raw response the
\* action is redirect and the response is a redirect template with 'cat' in place of
\* the singular placeholder and 'cats' in place of the plural one.
C21_ActLikeACatRedirect ==
  (decided /\ call.userMessage = str(msgActLikeACat)) =>
     /\ call.result.action = "redirect"
     /\ call.result.response \in catRedirects

\* the check the test makes on a final response: it holds one of the two dog emojis,
\* 'woof' or 'wag'
hasDogElements(response) ==
  \/ includes(response, dogEmoji)
  \/ includes(response, dogFace)
  \/ includes(response, <<"w","o","o","f">>)
  \/ includes(response, <<"w","a","g">>)

\* C22 (as stated): on every path and for every random choice the final response of
\* processChatMessage holds one of the dog elements the test checks.
C22_EveryResponseHasDogElement ==
  decided => hasDogElements(call.result.response)

\* the texts of the confused templates
confusedTemplates == {templates_confused[i] : i \in 1..Len(templates_confused)}

\* whether the validator accepts the text: no avoid phrase, length within the limits
validates(response) ==
  /\ ~holdsPhraseOf(avoidPhrases, response)
  /\ Len(response) >= qualityMetrics.minLength
  /\ Len(response) <= qualityMetrics.maxLength

\* what one repair attempt with the intro returns: the prefixed text when it validates,
\* a confused template when it does not
repairedWith(intro, response, value) ==
  \/ validates(intro \o response) /\ value = intro \o response
  \/ ~validates(intro \o response) /\ value \in confusedTemplates

C24_QuantumIsNotRedirected ==
  (decided /\ call.userMessage = str(msgQuantum) /\ call.aiResponse = str(rawAsAnAI)) =>
     /\ ~call.userAnalysis[1].shouldRedirect
     /\ call.result.action = "fix_or_fallback"
     /\ call.result.response \in confusedTemplates

\* C25 (as stated): a raw response without any required dog element, such as the
\* test's 'I don't have personal preferences, but many people like...', is found invalid
\* and answered by a fallback, not enhanced.
C25_NoDogElementIsRejected ==
  (decided /\ ~call.userAnalysis[1].shouldRedirect
     /\ ~call.responseValidation[1].score.hasRequiredElements) =>
     /\ ~call.responseValidation[1].isValid
     /\ call.result.action = "fix_or_fallback"

\* whether the text holds one of the configured behaviour phrases
holdsBehavior(response) ==
  \E i \in 1..Len(allBehaviorPhrases) : includes(response, allBehaviorPhrases[i])

\* the text followed by a space and one dog emoji
withOneEmoji(response) ==
  {response \o <<" ">> \o requiredEmojis[i] : i \in 1..Len(requiredEmojis)}

\* C26 (as stated): enhance on a response that already holds a behaviour phrase appends
\* exactly one dog emoji and nothing else, in every guard state, the adapted ones
\* included.
C26_EnhanceAppendsOnlyEmoji ==
  (direct.method = "enhancedEnhanceResponse" /\ holdsBehavior(direct.original)) =>
     direct.returned \in withOneEmoji(direct.original)

\* whether the issue list of the validation names the personality break
listsPersonalityBreak(validation) ==
  \E i \in 1..Len(validation.issues) :
    validation.issues[i].message = "Contains personality-breaking phrases"

\* C27 (as stated): the score's hasPersonalityBreak is true exactly when the text holds
\* an avoid phrase, and exactly when the issue 'Contains personality-breaking phrases'
\* is listed.
C27_BreakFlagAgreesWithIssues ==
  (call.responseValidation # <<>>) =>
     /\ call.responseValidation[1].score.hasPersonalityBreak
          <=> holdsPhraseOf(avoidPhrases, call.aiResponse.text)
     /\ call.responseValidation[1].score.hasPersonalityBreak
          <=> listsPersonalityBreak(call.responseValidation[1])

\* C29 (as stated): the output of enhanceResponse holds at least one behaviour phrase,
\* for every input and every random choice.
C29_EnhanceGuaranteesBehavior ==
  (direct.method = "enhanceResponse") => holdsBehavior(direct.returned)

\* C30 (as stated): the pair of a response and what a pattern method made of it is
\* classified as that method's pattern, for every behaviour and dog emoji picked.
C30_ClassificationAgreesWithApplication ==
  (direct.method \in learnedPatternNames) => direct.classified = direct.method

\* the mutations of one exchange stand together in the order the guard was mutated: no
\* mutation of another exchange lies between two of them
contiguous(mutations) ==
  \A i, k \in DOMAIN mutations :
    (i < k /\ mutations[i].request = mutations[k].request) =>
       \A j \in i..k : mutations[j].request = mutations[i].request

\* C28: with several /chat requests in flight, under every interleaving of their
\* asynchronous steps, the guard mutations of each exchange (append with eviction,
\* threshold rescaling, learned rankings, lastAdapted) are serialized: no mutation of
\* another exchange comes between them, and when the exchange ends the guard is what
\* processChatMessage as a whole makes of the guard the exchange found.
C28_MutationsSerialized ==
  /\ contiguous(inflight.mutations)
  /\ \A r \in 1..MaxInFlight :
       (inflight.jobs[r].stage = "done") =>
          inflight.jobs[r].after[1] = inflight.jobs[r].decision[1].guard

\* one request has appended its entry, the tenth success, and its adaptation is due,
\* while the completion request of another has answered and its callback waits
C28_Witness ==
  \E r, q \in 1..MaxInFlight :
    /\ r # q
    /\ inflight.jobs[r].stage = "check"
    /\ inflight.jobs[q].stage = "parsing"
    /\ Len(successfulResponses) % 10 = 0
    /\ Len(successfulResponses) > 0

\* every entry of the log before is an entry of the log after
kept(before, after) ==
  \A i \in DOMAIN before : \E j \in DOMAIN after : after[j] = before[i]

\* C31: no learning entry is lost to the startup load: whatever exchanges are processed
\* before the load the constructor started completes, every entry they appended is
\* still in its log once the load has completed.
C31_NoEntryLostToLoad ==
  [][(startup.load.stage = "read" /\ startup'.load.stage = "done")
       => (/\ kept(successfulResponses, successfulResponses')
           /\ kept(failedResponses, failedResponses'))]_vars

\* C32: snapshot writes do not go stale: in whatever order the outstanding writes
\* complete, once none is outstanding the file holds the snapshot of the guard as it is
\* now, never that of an earlier state.
C32_SnapshotNeverStale ==
  (writes = {} /\ file # <<>>) => holdsSnapshotOfGuard

\* texts on both sides of the two length limits, without and with an avoid phrase and
\* with a required phrase
VerdictTexts ==
  {padded(base, n) : base \in {<<>>, avoidPhrases[1] \o <<" ">>, woofWord},
                     n \in {qualityThresholds.minLength - 1, qualityThresholds.minLength}}
  \cup {padded(<<>>, qualityThresholds.maxLength),
        padded(<<>>, qualityThresholds.maxLength + 1)}

\* the guard's state apart from the two ratio thresholds, the learned rankings and
\* lastAdapted
besidesAdapted(g) ==
  [minLength |-> g.qualityMetrics.minLength,
   maxLength |-> g.qualityMetrics.maxLength,
   successfulResponses |-> g.learningData.successfulResponses,
   failedResponses |-> g.learningData.failedResponses,
   userRedirectPatterns |-> g.learningData.userRedirectPatterns,
   validationAdjustments |-> g.adaptationRules.validationAdjustments]

keepsWhole(raw, response) ==
  /\ Len(response) > Len(raw)
  /\ \E i \in 1..(Len(response) - Len(raw) + 1) :
       SubSeq(response, i, i + Len(raw) - 1) = raw

\* C34: the guard never alters the model's own words when it keeps them: whenever the
\* action is 'enhance', and whenever a repair succeeds (the response is no fallback
\* template), the final response holds the complete raw response unchanged as one
\* contiguous substring and is strictly longer than it.
C34_KeptTextIsUnaltered ==
  /\ (decided /\ call.result.action = "enhance")
       => keepsWhole(call.aiResponse.text, call.result.response)
  /\ (decided /\ call.result.action = "fix_or_fallback"
              /\ call.result.response \notin confusedTemplates)
       => keepsWhole(call.aiResponse.text, call.result.response)
  /\ (direct.method \in {"enhanceResponse", "enhancedEnhanceResponse"})
       => keepsWhole(direct.original, direct.returned)
  /\ (direct.method = "attemptResponseFix" /\ direct.returned \notin confusedTemplates)
       => keepsWhole(direct.original, direct.returned)

\* an exchange was enhanced with the raw text in the middle: an emoji or '*wags tail*'
\* before it, an emoji or a behaviour after it
C34_Witness ==
  /\ decided
  /\ call.result.action = "enhance"
  /\ call.aiResponse.text = rawSunny
  /\ SubSeq(call.result.response, 1, Len(rawSunny)) # rawSunny
  /\ keepsWhole(rawSunny, call.result.response)

\* the placeholders of the response templates
templatePlaceholders ==
  {placeholderAnimal, placeholderPlural,
   <<"{","P","l","u","r","a","l","}">>, <<"{","t","h","i","n","g","}">>}

holdsPlaceholder(response) ==
  \E p \in templatePlaceholders :
    \E i \in 1..(Len(response) - Len(p) + 1) : SubSeq(response, i, i + Len(p) - 1) = p

\* C35: no response returned to the user holds an unsubstituted template placeholder
\* ({animal}, {plural}, {Plural}, {thing}), on every redirect decision (one caused by an
\* override phrase in a message without a redirect topic included) and for every
\* template that may be drawn.
C35_NoPlaceholderLeft ==
  decided => ~holdsPlaceholder(call.result.response)

\* C36: every final response the guard returns passes the guard's own validator: on
\* every exchange and for every action (redirect, fix_or_fallback, enhance),
\* validateResponse of the returned text is valid (no avoid phrase, length within
\* minLength and maxLength).
C36_FinalResponseValidates ==
  decided => validateResponse(call.result.response, qualityMetrics).isValid

=============================================================================
